---- MODULE Spec2Model ----
(***************************************************************************)
(* Twinkle Eval: the concurrent dispatch engine (evaluators.py), the       *)
(* per-dataset runner (main.py) and the distributed result merge           *)
(* (finalize.py), modelled over one results/ directory for one timestamp.  *)
(*                                                                         *)
(* Abstractions: a JSONL line is modelled by the record it encodes; an     *)
(* accuracy is an exact fraction <<numerator, denominator>> in lowest      *)
(* terms; all files belong to one dataset, so ds_name is left implicit.    *)
(***************************************************************************)
EXTENDS Integers, Sequences, FiniteSets, TLC

\* ---------------------------------------------------------------- bounds
NumProcs == 2        \* evaluating processes (node/rank pairs)
NumFiles == 2        \* question files of the dataset
MaxQuestions == 2    \* questions per file
MaxRecords == 2      \* AnswerRecords written over the whole evaluation
MaxFaults == 1       \* injected failures (I/O, export, upload, LLM) per behaviour
MaxCalls == 2        \* finalize_results invocations per behaviour
NumThreads == 2      \* threads calling RateLimiter.wait
MaxWaits == 3        \* RateLimiter.wait calls per behaviour
TicksPerSecond == 2  \* resolution of the clock
Horizon == 4         \* ticks the clock advances per behaviour
MaxOptions == 2      \* options of a question
MaxRuns == 2         \* evaluation.repeat_runs of a repeated evaluation

\* ------------------------------------------------------- program constants
DefaultRepeatRuns == 1   \* config["evaluation"].get("repeat_runs", 1)

VARIABLE repeat_runs     \* evaluation.repeat_runs of the configuration in use

NoFile == 0      \* no source file named (files are numbered from 1)
NoNode == -1     \* the node part of a merged run log path (it has none)
Unset == -1      \* SLURM_NODEID not in the environment
NoRet == -1      \* finalize_results has not returned

Procs == 1..NumProcs
Files == 1..NumFiles
Runs == 0..(repeat_runs - 1)
QuestionIds == 0..(MaxQuestions - 1)

\* ------------------------------------------------------------- fractions
RECURSIVE GCD(_, _)
GCD(a, b) == IF b = 0 THEN a ELSE GCD(b, a % b)

Frac(n, d) == LET g == GCD(n, d) IN IF g = 0 THEN <<0, 1>> ELSE <<n \div g, d \div g>>
FracAdd(x, y) == Frac(x[1] * y[2] + y[1] * x[2], x[2] * y[2])
Zero == <<0, 1>>

RECURSIVE FracSum(_)
FracSum(s) == IF s = <<>> THEN Zero ELSE FracAdd(Head(s), FracSum(Tail(s)))

\* numpy.mean of a non-empty list of fractions
NpMean(s) == LET t == FracSum(s) IN Frac(t[1], t[2] * Len(s))

\* abs(x - m) ** 2
SquaredDeviation(x, m) ==
    LET n == x[1] * m[2] - m[1] * x[2]
        d == x[2] * m[2]
    IN Frac(n * n, d * d)

\* the square root of a fraction, kept exact
Sqrt(x) == [sqrt_of |-> x]

\* variant: the sample standard deviation (ddof = 1)
NpStd_Sample(s) ==
    LET m == NpMean(s)
        t == FracSum([i \in 1..Len(s) |-> SquaredDeviation(s[i], m)])
    IN Sqrt(Frac(t[1], t[2] * (Len(s) - 1)))

\* numpy.std of a non-empty list of fractions: sqrt(mean(abs(x - x.mean()) ** 2))
NpStd(s) ==
    LET m == NpMean(s)
    IN Sqrt(NpMean([i \in 1..Len(s) |-> SquaredDeviation(s[i], m)]))

\* ------------------------------------------------------ sequence helpers
RECURSIVE Flatten(_)
Flatten(ss) == IF ss = <<>> THEN <<>> ELSE Head(ss) \o Flatten(Tail(ss))

RECURSIVE Dedupe(_)
\* first occurrence of each element, in order ("if x not in list: list.append(x)")
Dedupe(s) ==
    IF s = <<>> THEN <<>>
    ELSE LET front == Dedupe(SubSeq(s, 1, Len(s) - 1))
             last == s[Len(s)]
         IN IF \E i \in 1..Len(front) : front[i] = last THEN front ELSE Append(front, last)

Range(s) == {s[i] : i \in 1..Len(s)}

RECURSIVE SetToSortedSeq(_)
\* sorted(set of integers)
SetToSortedSeq(S) ==
    IF S = {} THEN <<>>
    ELSE LET m == CHOOSE x \in S : \A y \in S : x <= y
         IN <<m>> \o SetToSortedSeq(S \ {m})

Count(s, P(_)) == Cardinality({i \in 1..Len(s) : P(s[i])})

\* ------------------------------------------------------------------ paths
\* results/eval_results_{timestamp}_run{run}_{node_id}.jsonl
ShardLogPath(run, node_id) == [run |-> run, node |-> node_id]
\* results/eval_results_{timestamp}_run{run_idx}.jsonl
MergedPath(run_idx) == [run |-> run_idx, node |-> NoNode]

NodeIds == 0..(NumProcs - 1)
ShardPaths == {ShardLogPath(r, n) : r \in Runs, n \in NodeIds}
MergedPaths == {MergedPath(r) : r \in Runs}
AllPaths == ShardPaths \cup MergedPaths

\* node{SLURM_NODEID}, or node0 when the variable is unset
_get_node_id(slurm_node) == IF slurm_node # Unset THEN slurm_node ELSE 0

\* torn: the file holds a line that is no complete JSON document
AbsentFile == [exists |-> FALSE, lines |-> <<>>, torn |-> FALSE]
\* config: the document has a config entry; corrupt: it is no valid JSON
AbsentJson == [exists |-> FALSE, results |-> <<>>, average_accuracy |-> Zero,
               config |-> FALSE, corrupt |-> FALSE]

VARIABLES
    env,        \* SLURM_NODEID in the environment of each process
    jsonl,      \* results/eval_results_*.jsonl: shard logs and merged run logs
    shardJson,  \* results/results_{T}_node*_rank*.json, one per process
    report,     \* results/results_{T}.json
    runner,     \* TwinkleEvalRunner._evaluate_dataset loop state of each process, with
                \* the history raised_at: the iterations in which evaluate_file raised
    writers,    \* history: the processes that appended to each shard log
    fin,        \* locals of the finalize_results invocation in progress
    calls,      \* finalize_results invocations started so far
    hist,       \* history: branch, upload request and result of each ended invocation
    faults,     \* failures injected so far
    dataset,    \* the questions of the file under a step-by-step evaluate_file
    ev,         \* locals of that evaluate_file execution
    now,        \* time.time(), in ticks
    rl,         \* the RateLimiter: no_limit, interval, last_call_time
    th,         \* position of each thread inside RateLimiter.wait
    admitted,   \* history: the thread and the time of every return of wait
    question_data, \* the question handed to shuffle_question_options
    shuffled,   \* what that call gave: the returned question or the exception
    conf        \* the configuration of a TwinkleEvalRunner: the YAML document, the
                \* loaded self.config, the RateLimiter of the Evaluator and the
                \* config entry of the exported results

vars == <<env, jsonl, shardJson, report, runner, writers, fin, calls, hist, faults,
          dataset, ev, now, rl, th, admitted, question_data, shuffled, repeat_runs, conf>>
cfgVars == <<repeat_runs, conf>>
shufVars == <<question_data, shuffled>>
evalVars == <<dataset, ev>>
limVars == <<now, rl, th, admitted>>
mergeVars == <<shardJson, report, runner, fin, calls, hist, faults>>

\* ------------------------------------------------- strings and questions
\* a str is the sequence of its characters
ascii_lowercase == <<"a", "b", "c", "d", "e", "f", "g", "h", "i", "j", "k", "l", "m",
                     "n", "o", "p", "q", "r", "s", "t", "u", "v", "w", "x", "y", "z">>
ascii_uppercase == <<"A", "B", "C", "D", "E", "F", "G", "H", "I", "J", "K", "L", "M",
                     "N", "O", "P", "Q", "R", "S", "T", "U", "V", "W", "X", "Y", "Z">>
Whitespace == {" ", "\t", "\n"}

\* str.upper()
Upper(str) ==
    [i \in 1..Len(str) |->
        IF \E k \in 1..Len(ascii_lowercase) : ascii_lowercase[k] = str[i]
        THEN ascii_uppercase[CHOOSE k \in 1..Len(ascii_lowercase) : ascii_lowercase[k] = str[i]]
        ELSE str[i]]

\* str.strip(): drop the leading and the trailing whitespace
Strip(str) ==
    LET inked == {i \in 1..Len(str) : str[i] \notin Whitespace}
    IN IF inked = {} THEN <<>>
       ELSE SubSeq(str, CHOOSE i \in inked : \A j \in inked : i <= j,
                        CHOOSE i \in inked : \A j \in inked : i >= j)

\* the values a field of a loaded record can hold
StrValue(str) == [type |-> "str", str |-> str]
NoneValue == [type |-> "NoneType", str |-> <<>>]
IntValue == [type |-> "int", str |-> <<>>]
ListValue == [type |-> "list", str |-> <<>>]

\* the keys "question" and "answer"
QUESTION == <<"q", "u", "e", "s", "t", "i", "o", "n">>
ANSWER == <<"a", "n", "s", "w", "e", "r">>

\* the outcome of a call: the value returned or the exception raised
Returned(data) == [raised |-> "", data |-> data]
Raised(exception, data) == [raised |-> exception, data |-> data]
NotCalled == Raised("not called", <<>>)

\* position of a character in ascii_uppercase
Ord(c) == CHOOSE k \in 1..Len(ascii_uppercase) : ascii_uppercase[k] = c

\* the order of key=lambda k: (len(k), k) on keys made of capital letters
RECURSIVE StrLess(_, _)
StrLess(a, b) ==
    IF a = <<>> THEN b # <<>>
    ELSE IF b = <<>> THEN FALSE
    ELSE IF a[1] # b[1] THEN Ord(a[1]) < Ord(b[1])
    ELSE StrLess(Tail(a), Tail(b))

KeyLess(a, b) == Len(a) < Len(b) \/ (Len(a) = Len(b) /\ StrLess(a, b))

RECURSIVE SortKeys(_)
SortKeys(S) ==
    IF S = {} THEN <<>>
    ELSE LET m == CHOOSE x \in S : \A y \in S \ {x} : KeyLess(x, y)
         IN <<m>> \o SortKeys(S \ {m})

\* the option keys of a question: its non-empty keys made of capital letters
OptionKeys(data) ==
    SortKeys({k \in DOMAIN data :
                 /\ k # <<>>
                 /\ \A i \in 1..Len(k) : \E j \in 1..Len(ascii_uppercase) : ascii_uppercase[j] = k[i]
                 /\ k # ANSWER})

\* dict.get(key): an unhashable key is a TypeError (told apart by the caller),
\* a key that is no str is the key of no field
Get(data, key) ==
    IF key.type = "str" /\ key.str \in DOMAIN data THEN data[key.str] ELSE NoneValue

\* the orders random.shuffle can leave n options in
Shuffles(n) == {perm \in [1..n -> 1..n] : \A i, j \in 1..n : i # j => perm[i] # perm[j]}

\* variant: the answer is the first key whatever text it received
NewAnswer_FirstKey(option_keys, texts, correct_option_text) == {option_keys[1]}

\* new_data["answer"]: the last new key whose text equals the correct text
NewAnswer(option_keys, texts, correct_option_text) ==
    LET hits == {i \in 1..Len(option_keys) : texts[i] = correct_option_text}
    IN IF hits = {} THEN {}
       ELSE {option_keys[CHOOSE i \in hits : \A j \in hits : i >= j]}

\* Evaluator.shuffle_question_options, perm being the order random.shuffle leaves
shuffle_question_options(data, perm) ==
    LET option_keys == OptionKeys(data)
        options == [i \in 1..Len(option_keys) |-> data[option_keys[i]]]
    IN IF Len(options) = 0 THEN Returned(data)
       ELSE IF ANSWER \notin DOMAIN data THEN Raised("KeyError", data)
       ELSE LET correct_ans == data[ANSWER]
            IN IF correct_ans.type = "list" THEN Raised("TypeError", data)
               ELSE LET correct_option_text == Get(data, correct_ans)
                    IN IF correct_option_text = NoneValue THEN Returned(data)
                       ELSE LET texts == [i \in 1..Len(options) |-> options[perm[i]]]
                                kept == (DOMAIN data \ Range(option_keys)) \ {ANSWER}
                                answer == NewAnswer(option_keys, texts, correct_option_text)
                                new_data ==
                                    [k \in kept \cup Range(option_keys)
                                          \cup (IF answer = {} THEN {} ELSE {ANSWER}) |->
                                        IF k = ANSWER THEN StrValue(CHOOSE a \in answer : TRUE)
                                        ELSE IF k \in kept THEN data[k]
                                        ELSE texts[CHOOSE i \in 1..Len(option_keys) :
                                                       option_keys[i] = k]]
                            IN Returned(new_data)

\* -------------------------------------------------- Evaluator.evaluate_file
QuestionText(f, i) == <<f, i>>

\* the record appended to detailed_results for question i of file f
AnswerRecord(f, i, ok) ==
    [question_id |-> i, question |-> QuestionText(f, i), is_correct |-> ok]

\* question ordinals in completion order: any sequence without repetition
CompletionOrders(maxLen) ==
    UNION {{s \in [1..k -> QuestionIds] : \A i, j \in 1..k : i # j => s[i] # s[j]} :
           k \in 0..maxLen}

\* accuracy = total_correct / total_questions if total_questions else 0
Accuracy(detailed_results) ==
    IF Len(detailed_results) = 0 THEN Zero
    ELSE Frac(Count(detailed_results, LAMBDA d : d.is_correct), Len(detailed_results))

RecordsOnDisk ==
    LET RECURSIVE Total(_)
        Total(S) == IF S = {} THEN 0
                    ELSE LET x == CHOOSE y \in S : TRUE
                         IN Len(jsonl[x].lines) + Total(S \ {x})
    IN Total(ShardPaths)

AppendLines(file, new) == [exists |-> TRUE, lines |-> file.lines \o new, torn |-> file.torn]

LoopEnd == NumFiles * repeat_runs
FileAt(pos) == (pos \div repeat_runs) + 1
RunAt(pos) == pos % repeat_runs

\* mean and standard deviation of one file's runs, as _evaluate_dataset and
\* finalize_results compute them
FileResult(file, accs, paths) ==
    [file |-> file,
     accuracy_mean |-> NpMean(accs),
     accuracy_std |-> IF Len(accs) > 1 THEN NpStd(accs) ELSE Sqrt(Zero),
     accuracies |-> accs,
     results |-> paths]

\* variant: the average counts every file of the dataset
DatasetAverage_AllFiles(results) ==
    LET t == FracSum([i \in 1..Len(results) |-> results[i].accuracy_mean])
    IN Frac(t[1], t[2] * NumFiles)

\* average_accuracy: np.mean of the accuracy_mean of the reported files, else 0
DatasetAverage(results) ==
    IF results = <<>> THEN Zero
    ELSE NpMean([i \in 1..Len(results) |-> results[i].accuracy_mean])

\* the dataset results as exported: the FileResults and their average
DatasetResults(results) ==
    [exists |-> TRUE, results |-> results, average_accuracy |-> DatasetAverage(results),
     config |-> TRUE, corrupt |-> FALSE]

\* end of the run loop of one file: the file is reported when a run succeeded
CloseFile(r, pos) ==
    IF RunAt(pos) # repeat_runs - 1 THEN [r EXCEPT !.pos = pos + 1]
    ELSE [r EXCEPT !.pos = pos + 1,
                   !.file_accuracies = <<>>,
                   !.file_results = <<>>,
                   !.results = IF r.file_accuracies = <<>> THEN @
                               ELSE Append(@, FileResult(FileAt(pos), r.file_accuracies,
                                                         r.file_results))]

\* one iteration of the run loop of _evaluate_dataset in which evaluate_file returns
EvaluateFile(p) ==
    /\ calls = 0
    /\ runner[p].pc = "eval"
    /\ runner[p].pos < LoopEnd
    /\ LET pos == runner[p].pos
           f == FileAt(pos)
           results_path == ShardLogPath(RunAt(pos), _get_node_id(env[p]))
       IN \E order \in CompletionOrders(MaxRecords - RecordsOnDisk) :
          \E ok \in [1..Len(order) -> BOOLEAN] :
             LET detailed_results == [i \in 1..Len(order) |-> AnswerRecord(f, order[i], ok[i])]
                 r1 == [runner[p] EXCEPT
                          !.file_accuracies = Append(@, Accuracy(detailed_results)),
                          !.file_results = Append(@, results_path)]
             IN /\ jsonl' = [jsonl EXCEPT ![results_path] = AppendLines(@, detailed_results)]
                /\ writers' = [writers EXCEPT ![results_path] = @ \cup {p}]
                /\ runner' = [runner EXCEPT ![p] = CloseFile(r1, pos)]
    /\ UNCHANGED <<cfgVars, shufVars, evalVars, limVars, env, shardJson, report, fin, calls, hist, faults>>

\* one iteration in which evaluate_file raises: "except Exception: continue"
EvaluateFileRaises(p) ==
    /\ calls = 0
    /\ runner[p].pc = "eval"
    /\ runner[p].pos < LoopEnd
    /\ faults < MaxFaults
    /\ faults' = faults + 1
    /\ runner' = [runner EXCEPT ![p] = CloseFile([@ EXCEPT !.raised_at = @ \cup {runner[p].pos}],
                                                   runner[p].pos)]
    /\ UNCHANGED <<cfgVars, shufVars, evalVars, limVars, env, jsonl, shardJson, report, writers, fin, calls, hist>>

\* the process is killed inside the write loop of evaluate_file: the shard log
\* has received the first records, and possibly the beginning of the next one
EvaluateFileInterrupted(p) ==
    /\ calls = 0
    /\ runner[p].pc = "eval"
    /\ runner[p].pos < LoopEnd
    /\ faults < MaxFaults
    /\ faults' = faults + 1
    /\ LET pos == runner[p].pos
           f == FileAt(pos)
           results_path == ShardLogPath(RunAt(pos), _get_node_id(env[p]))
       IN \E order \in CompletionOrders(MaxRecords - RecordsOnDisk) :
          \E ok \in [1..Len(order) -> BOOLEAN], written \in 0..(Len(order) - 1), torn \in BOOLEAN :
             LET detailed_results == [i \in 1..Len(order) |-> AnswerRecord(f, order[i], ok[i])]
                 file == AppendLines(jsonl[results_path], SubSeq(detailed_results, 1, written))
             IN /\ jsonl' = [jsonl EXCEPT ![results_path] = [file EXCEPT !.torn = @ \/ torn]]
                /\ writers' = [writers EXCEPT ![results_path] = @ \cup {p}]
    /\ runner' = [runner EXCEPT ![p].pc = "killed"]
    /\ UNCHANGED <<cfgVars, shufVars, evalVars, limVars, env, shardJson, report, fin, calls, hist>>

\* a distributed rank exports its summary results_{T}_node{n}_rank{k}.json
ExportShardSummary(p) ==
    /\ calls = 0
    /\ runner[p].pc = "eval"
    /\ runner[p].pos = LoopEnd
    /\ shardJson' = [shardJson EXCEPT ![p] = DatasetResults(runner[p].results)]
    /\ runner' = [runner EXCEPT ![p].pc = "done"]
    /\ UNCHANGED <<cfgVars, shufVars, evalVars, limVars, env, jsonl, report, writers, fin, calls, hist, faults>>

\* run_evaluation of a single-node run exports results_{T}.json
RunEvaluationExport(p) ==
    /\ calls = 0
    /\ runner[p].pc = "eval"
    /\ runner[p].pos = LoopEnd
    /\ \A q \in Procs : runner[q].pos = 0 \/ q = p
    /\ report' = DatasetResults(runner[p].results)
    /\ runner' = [runner EXCEPT ![p].pc = "done"]
    /\ UNCHANGED <<cfgVars, shufVars, evalVars, limVars, env, jsonl, shardJson, writers, fin, calls, hist, faults>>

\* ------------------------------------------------------- finalize_results
IdleFin ==
    [pc |-> "idle", json_shards |-> <<>>, declared |-> <<>>,
     merged_runs |-> {}, shard_jsonl_files |-> {}, raised |-> FALSE,
     exported |-> FALSE, ret |-> NoRet]

\* an ended invocation: the branch it took, whether an upload was requested, and
\* the value returned (NoRet when an exception left the function)
Ended(branch, hf_repo_id, ret) == [branch |-> branch, hf_repo_id |-> hf_repo_id, ret |-> ret]

\* sorted(glob("results_{timestamp}_node*_rank*.json"))
\* glob returns the existing summaries in an order of its own
GlobOrders ==
    LET found == {p \in Procs : shardJson[p].exists}
    IN {order \in [1..Cardinality(found) -> found] :
           \A i, j \in 1..Cardinality(found) : i # j => order[i] # order[j]}
\* sorted(paths), the paths being distinct
Sorted(paths) == SetToSortedSeq(Range(paths))
ShardGlob == Sorted(CHOOSE order \in GlobOrders : TRUE)

\* phase 1: the (file, run_idx, jsonl_path) triples in the order the loops visit them
DeclaredRuns(json_shards) ==
    Flatten([i \in 1..Len(json_shards) |->
        LET shard_data == shardJson[json_shards[i]]
        IN Flatten([k \in 1..Len(shard_data.results) |->
               LET file_res == shard_data.results[k]
               IN [j \in 1..Len(file_res.results) |->
                     [file |-> file_res.file, run_idx |-> j - 1,
                      path |-> file_res.results[j]]]])])

RunIndices(declared) == {declared[i].run_idx : i \in 1..Len(declared)}

\* variant: every declared path is appended, also one already in the list
RunJsonlShards_NoDedupe(declared, run_idx) ==
    LET of_run == SelectSeq(declared, LAMBDA d : d.run_idx = run_idx)
    IN [i \in 1..Len(of_run) |-> of_run[i].path]

\* run_jsonl_shards[run_idx]: the declared paths of a run, first occurrence only
RunJsonlShards(declared, run_idx) ==
    LET of_run == SelectSeq(declared, LAMBDA d : d.run_idx = run_idx)
    IN Dedupe([i \in 1..Len(of_run) |-> of_run[i].path])

\* ds_file_runs: the files in insertion order, and the run indices of a file
DeclaredFiles(declared) == Dedupe([i \in 1..Len(declared) |-> declared[i].file])
FileRuns(declared, file) ==
    {declared[i].run_idx : i \in {j \in 1..Len(declared) : declared[j].file = file}}

\* variant: the entries are written in the order read
SortByQuestionId_Unsorted(entries) == entries

\* list.sort(key=question_id) is stable: equal keys keep their input order
RECURSIVE SortByQuestionId(_)
SortByQuestionId(entries) ==
    IF entries = <<>> THEN <<>>
    ELSE LET front == SortByQuestionId(SubSeq(entries, 1, Len(entries) - 1))
             e == entries[Len(entries)]
             k == Cardinality({i \in 1..Len(front) : front[i].question_id <= e.question_id})
         IN SubSeq(front, 1, k) \o <<e>> \o SubSeq(front, k + 1, Len(front))

\* phase 2 for one run: the entries of every existing declared shard log
ExistingShards(shard_paths) == SelectSeq(shard_paths, LAMBDA j_path : jsonl[j_path].exists)
\* json.loads raises on a line that is no complete document
Unparsable(shard_paths) ==
    \E i \in 1..Len(ExistingShards(shard_paths)) : jsonl[ExistingShards(shard_paths)[i]].torn
\* the shard logs opened up to the one on which json.loads raises
OpenedShards(shard_paths) ==
    LET existing == ExistingShards(shard_paths)
        first == CHOOSE i \in 1..Len(existing) :
                     jsonl[existing[i]].torn /\ \A j \in 1..(i - 1) : ~jsonl[existing[j]].torn
    IN SubSeq(existing, 1, first)
\* the lines of the existing shard logs, the content of the logs being logs
AllEntriesOver(logs, shard_paths) ==
    LET existing == ExistingShards(shard_paths)
    IN Flatten([i \in 1..Len(existing) |-> logs[existing[i]].lines])
AllEntries(shard_paths) == AllEntriesOver(jsonl, shard_paths)
\* the entries written to the merged log of a run
MergedEntries(logs, declared, run_idx) ==
    SortByQuestionId(AllEntriesOver(logs, RunJsonlShards(declared, run_idx)))

\* phase 3: entry.get("source_file") or entry.get("file")
SrcFile(entry) ==
    IF "source_file" \in DOMAIN entry /\ entry["source_file"] # NoFile
    THEN entry["source_file"]
    ELSE IF "file" \in DOMAIN entry THEN entry["file"]
    ELSE NoFile

\* run_file_correct[run_idx].get(file_path); the empty list stands for None, since
\* a key of run_file_correct[run_idx] is created only together with its first entry
RunFileCorrect(run_idx, file_path) ==
    LET merged == jsonl[MergedPath(run_idx)]
        mine == SelectSeq(merged.lines, LAMBDA entry :
                             SrcFile(entry) # NoFile /\ SrcFile(entry) = file_path)
    IN IF ~merged.exists THEN <<>> ELSE [i \in 1..Len(mine) |-> mine[i].is_correct]

\* the fallback over the summary documents docs: the mean of their pre-computed
\* accuracies of the run of the file
AccOfShards(docs, json_shards, file_path, run_idx) ==
    LET per_shard == [i \in 1..Len(json_shards) |->
            LET res == docs[json_shards[i]].results
                hits == SelectSeq(res, LAMBDA fr :
                            fr.file = file_path /\ run_idx < Len(fr.accuracies))
            IN [k \in 1..Len(hits) |-> hits[k].accuracies[run_idx + 1]]]
        accs == Flatten(per_shard)
    IN IF accs = <<>> THEN Zero ELSE NpMean(accs)

\* _acc_from_shards opens the shard summaries on disk
_acc_from_shards(json_shards, file_path, run_idx) ==
    AccOfShards(shardJson, json_shards, file_path, run_idx)

\* acc of phase 4, the shard summaries on disk being docs
RunAccuracyOver(docs, json_shards, file_path, run_idx) ==
    LET correct_list == RunFileCorrect(run_idx, file_path)
    IN IF correct_list # <<>>
       THEN Frac(Count(correct_list, LAMBDA c : c), Len(correct_list))
       ELSE AccOfShards(docs, json_shards, file_path, run_idx)

RunAccuracy(json_shards, file_path, run_idx) ==
    RunAccuracyOver(shardJson, json_shards, file_path, run_idx)

\* some summary holds a pre-computed accuracy of the run of the file
HasPrecomputed(json_shards, file_path, run_idx) ==
    \E i \in 1..Len(json_shards) : \E fr \in Range(shardJson[json_shards[i]].results) :
        fr.file = file_path /\ run_idx < Len(fr.accuracies)

\* variant: a run of which no accuracy is known is left out of the FileResult
MergedDatasetResults_KnownRuns(json_shards, declared) ==
    LET files == DeclaredFiles(declared)
    IN [i \in 1..Len(files) |->
          LET runs == SetToSortedSeq({r \in FileRuns(declared, files[i]) :
                                        \/ RunFileCorrect(r, files[i]) # <<>>
                                        \/ HasPrecomputed(json_shards, files[i], r)})
          IN FileResult(files[i],
                        [j \in 1..Len(runs) |-> RunAccuracy(json_shards, files[i], runs[j])],
                        [j \in 1..Len(runs) |-> MergedPath(runs[j])])]

\* phase 4: one FileResult per declared file
MergedDatasetResults(json_shards, declared) ==
    LET files == DeclaredFiles(declared)
    IN [i \in 1..Len(files) |->
          LET runs == SetToSortedSeq(FileRuns(declared, files[i]))
          IN FileResult(files[i],
                        [j \in 1..Len(runs) |-> RunAccuracy(json_shards, files[i], runs[j])],
                        [j \in 1..Len(runs) |-> MergedPath(runs[j])])]

\* the merge is run once the evaluating processes have ended: each has exported
\* its results, was killed, or has not evaluated anything
Quiescent == \A p \in Procs : runner[p].pc \in {"done", "killed"} \/ runner[p].pos = 0

CanCall == calls < MaxCalls /\ fin.pc \in {"idle", "done", "raised"} /\ Quiescent

\* a shard summary is damaged before the merge: it loses its config entry, or
\* is left with content that is no JSON document
DamageSummary(p, corrupt) ==
    /\ calls = 0
    /\ Quiescent
    /\ shardJson[p].exists /\ shardJson[p].config /\ ~shardJson[p].corrupt
    /\ faults < MaxFaults
    /\ faults' = faults + 1
    /\ shardJson' = [shardJson EXCEPT ![p] = IF corrupt THEN [@ EXCEPT !.corrupt = TRUE]
                                             ELSE [@ EXCEPT !.config = FALSE]]
    /\ UNCHANGED <<cfgVars, shufVars, evalVars, limVars, env, jsonl, report, runner, writers, fin, calls, hist>>

\* a shard summary reaches the merge with fewer pre-computed accuracies than run
\* logs for one of its files: the last accuracy of the list is missing
DropAccuracy(p) ==
    /\ calls = 0
    /\ Quiescent
    /\ shardJson[p].exists /\ ~shardJson[p].corrupt
    /\ faults < MaxFaults
    /\ faults' = faults + 1
    /\ \E k \in 1..Len(shardJson[p].results) :
          /\ Len(shardJson[p].results[k].accuracies) = Len(shardJson[p].results[k].results)
          /\ shardJson' = [shardJson EXCEPT ![p].results[k].accuracies =
                                               SubSeq(@, 1, Len(@) - 1)]
    /\ UNCHANGED <<cfgVars, shufVars, evalVars, limVars, env, jsonl, report, runner, writers, fin, calls, hist>>

\* no shard summary and no results_{T}.json: return 1
FinalizeNotFound ==
    /\ CanCall
    /\ ShardGlob = <<>>
    /\ ~report.exists
    /\ fin' = [IdleFin EXCEPT !.pc = "done", !.ret = 1]
    /\ calls' = calls + 1
    /\ \E hf_repo_id \in BOOLEAN : hist' = Append(hist, Ended("notfound", hf_repo_id, 1))
    /\ UNCHANGED <<cfgVars, shufVars, evalVars, limVars, env, jsonl, shardJson, report, runner, writers, faults>>

\* variant: without shard summaries the call fails, whatever else exists
FinalizeSingleNode_NoShards(hf_repo_id, upload_ok) ==
    /\ CanCall
    /\ ShardGlob = <<>>
    /\ report.exists
    /\ hf_repo_id \/ upload_ok
    /\ upload_ok
    /\ fin' = [IdleFin EXCEPT !.pc = "done", !.ret = 1]
    /\ calls' = calls + 1
    /\ hist' = Append(hist, Ended("notfound", hf_repo_id, 1))
    /\ UNCHANGED <<cfgVars, shufVars, evalVars, limVars, env, jsonl, shardJson, report, runner, writers, faults>>

\* no shard summary but results_{T}.json exists: optional upload, no merge
FinalizeSingleNode(hf_repo_id, upload_ok) ==
    /\ CanCall
    /\ ShardGlob = <<>>
    /\ report.exists
    /\ hf_repo_id \/ upload_ok
    /\ ~upload_ok => faults < MaxFaults
    /\ faults' = IF upload_ok THEN faults ELSE faults + 1
    /\ fin' = [IdleFin EXCEPT !.pc = "done", !.ret = IF upload_ok THEN 0 ELSE 1]
    /\ calls' = calls + 1
    /\ hist' = Append(hist, Ended("single", hf_repo_id, IF upload_ok THEN 0 ELSE 1))
    /\ UNCHANGED <<cfgVars, shufVars, evalVars, limVars, env, jsonl, shardJson, report, runner, writers>>

\* shard summaries found: load them and build the two indexes (phase 1); a
\* summary that json.load rejects ends the call with its exception, before the
\* try block
FinalizeDiscover ==
    /\ CanCall
    /\ ShardGlob # <<>>
    /\ IF \E i \in 1..Len(ShardGlob) : shardJson[ShardGlob[i]].corrupt
       THEN /\ fin' = [IdleFin EXCEPT !.pc = "raised"]
            /\ hist' = Append(hist, Ended("merge", FALSE, NoRet))
       ELSE /\ fin' = [IdleFin EXCEPT !.pc = "merge",
                                      !.json_shards = ShardGlob,
                                      !.declared = DeclaredRuns(ShardGlob)]
            /\ UNCHANGED hist
    /\ calls' = calls + 1
    /\ UNCHANGED <<cfgVars, shufVars, evalVars, limVars, env, jsonl, shardJson, report, runner, writers, faults>>

PendingRuns == RunIndices(fin.declared) \ fin.merged_runs

\* phase 2, one iteration: merge the shard logs of the next run index; a line
\* that json.loads rejects, or a failed write, leaves through the finally block
MergeRun(write_ok) ==
    /\ fin.pc = "merge"
    /\ PendingRuns # {}
    /\ ~write_ok => faults < MaxFaults
    /\ LET run_idx == CHOOSE r \in PendingRuns : \A x \in PendingRuns : r <= x
           shard_paths == RunJsonlShards(fin.declared, run_idx)
           all_entries == MergedEntries(jsonl, fin.declared, run_idx)
           tracked == fin.shard_jsonl_files \cup Range(ExistingShards(shard_paths))
       IN IF Unparsable(shard_paths)
          THEN /\ write_ok
               /\ fin' = [fin EXCEPT !.pc = "cleanup", !.raised = TRUE,
                                     !.shard_jsonl_files = @ \cup Range(OpenedShards(shard_paths))]
               /\ UNCHANGED <<jsonl, faults>>
          ELSE IF write_ok
          THEN /\ jsonl' = [jsonl EXCEPT ![MergedPath(run_idx)] =
                                [exists |-> TRUE, lines |-> all_entries, torn |-> FALSE]]
               /\ fin' = [fin EXCEPT !.merged_runs = @ \cup {run_idx},
                                     !.shard_jsonl_files = tracked]
               /\ UNCHANGED faults
          ELSE /\ fin' = [fin EXCEPT !.pc = "cleanup", !.raised = TRUE,
                                     !.shard_jsonl_files = tracked]
               /\ faults' = faults + 1
               /\ UNCHANGED jsonl
    /\ UNCHANGED <<cfgVars, shufVars, evalVars, limVars, env, shardJson, report, runner, writers, calls, hist>>

\* variant: a first summary without config entry is given an empty config
AssembleAndExport_DefaultConfig(export_ok) ==
    /\ fin.pc = "merge"
    /\ PendingRuns = {}
    /\ ~export_ok => faults < MaxFaults
    /\ IF export_ok
       THEN /\ report' = DatasetResults(MergedDatasetResults(fin.json_shards, fin.declared))
            /\ fin' = [fin EXCEPT !.pc = "cleanup", !.exported = TRUE]
            /\ UNCHANGED faults
       ELSE /\ fin' = [fin EXCEPT !.pc = "cleanup", !.raised = TRUE]
            /\ faults' = faults + 1
            /\ UNCHANGED report
    /\ UNCHANGED <<cfgVars, shufVars, evalVars, limVars, env, jsonl, shardJson, runner, writers, calls, hist>>

\* phases 3 and 4 and the export of results_{T}.json; base_result["config"] is a
\* KeyError when the first summary has no config entry
AssembleAndExport(export_ok) ==
    /\ fin.pc = "merge"
    /\ PendingRuns = {}
    /\ ~export_ok => faults < MaxFaults
    /\ IF ~shardJson[fin.json_shards[1]].config
       THEN /\ export_ok
            /\ fin' = [fin EXCEPT !.pc = "cleanup", !.raised = TRUE]
            /\ UNCHANGED <<report, faults>>
       ELSE IF export_ok
       THEN /\ report' = DatasetResults(MergedDatasetResults(fin.json_shards, fin.declared))
            /\ fin' = [fin EXCEPT !.pc = "cleanup", !.exported = TRUE]
            /\ UNCHANGED faults
       ELSE /\ fin' = [fin EXCEPT !.pc = "cleanup", !.raised = TRUE]
            /\ faults' = faults + 1
            /\ UNCHANGED report
    /\ UNCHANGED <<cfgVars, shufVars, evalVars, limVars, env, jsonl, shardJson, runner, writers, calls, hist>>

\* variant: the first OSError ends the clean-up and leaves finalize_results
Cleanup_Fatal(json_errors, jsonl_errors) ==
    /\ fin.pc = "cleanup"
    /\ json_errors \subseteq Range(fin.json_shards)
    /\ jsonl_errors \subseteq fin.shard_jsonl_files
    /\ faults + Cardinality(json_errors) + Cardinality(jsonl_errors) <= MaxFaults
    /\ faults' = faults + Cardinality(json_errors) + Cardinality(jsonl_errors)
    /\ IF json_errors \cup jsonl_errors = {}
       THEN /\ shardJson' = [p \in Procs |->
                               IF p \in Range(fin.json_shards) THEN AbsentJson ELSE shardJson[p]]
            /\ jsonl' = [jp \in AllPaths |->
                           IF jp \in fin.shard_jsonl_files THEN AbsentFile ELSE jsonl[jp]]
       ELSE UNCHANGED <<shardJson, jsonl>>
    /\ LET raises == fin.raised \/ json_errors \cup jsonl_errors # {}
       IN /\ fin' = IF raises THEN [IdleFin EXCEPT !.pc = "raised"]
                    ELSE [fin EXCEPT !.pc = "upload"]
          /\ hist' = IF raises THEN Append(hist, Ended("merge", FALSE, NoRet)) ELSE hist
    /\ UNCHANGED <<cfgVars, shufVars, evalVars, limVars, env, report, runner, writers, calls>>

\* the finally block: os.remove of every shard summary and tracked shard log;
\* an OSError (the files of os_error) is passed over
Cleanup(json_errors, jsonl_errors) ==
    /\ fin.pc = "cleanup"
    /\ json_errors \subseteq Range(fin.json_shards)
    /\ jsonl_errors \subseteq fin.shard_jsonl_files
    /\ faults + Cardinality(json_errors) + Cardinality(jsonl_errors) <= MaxFaults
    /\ faults' = faults + Cardinality(json_errors) + Cardinality(jsonl_errors)
    /\ shardJson' = [p \in Procs |->
                        IF p \in Range(fin.json_shards) \ json_errors
                        THEN AbsentJson ELSE shardJson[p]]
    /\ jsonl' = [jp \in AllPaths |->
                    IF jp \in fin.shard_jsonl_files \ jsonl_errors
                    THEN AbsentFile ELSE jsonl[jp]]
    /\ fin' = IF fin.raised THEN [IdleFin EXCEPT !.pc = "raised"]
              ELSE [fin EXCEPT !.pc = "upload"]
    /\ hist' = IF fin.raised THEN Append(hist, Ended("merge", FALSE, NoRet)) ELSE hist
    /\ UNCHANGED <<cfgVars, shufVars, evalVars, limVars, env, report, runner, writers, calls>>

\* the optional upload after a merge: a failure is printed, the call returns 0
UploadAndReturn(hf_repo_id, upload_ok) ==
    /\ fin.pc = "upload"
    /\ hf_repo_id \/ upload_ok
    /\ ~upload_ok => faults < MaxFaults
    /\ faults' = IF upload_ok THEN faults ELSE faults + 1
    /\ fin' = [IdleFin EXCEPT !.pc = "done", !.ret = 0]
    /\ hist' = Append(hist, Ended("merge", hf_repo_id, 0))
    /\ UNCHANGED <<cfgVars, shufVars, evalVars, limVars, env, jsonl, shardJson, report, runner, writers, calls>>

\* ------------------------------------- Evaluator.evaluate_file, step by step
\* One execution, of process 1 on file 1 in run 0.  A future passes from "none"
\* (not submitted) over "running" to "done" (the call returned, and the strategy
\* extracted predicted[i] from the response) or "failed" (the call raised).
EvalFile == 1
EvalPath == ShardLogPath(0, _get_node_id(env[1]))

\* the questions of the file: two options and any kind of answer field
EvalAnswers ==
    {StrValue(<<"A">>), StrValue(<<" ", "a">>), StrValue(<<"C">>), IntValue, ListValue}
EvalQuestions ==
    {[k \in {QUESTION, <<"A">>, <<"B">>} \cup has_answer |->
         IF k = QUESTION THEN StrValue(<<"q">>)
         ELSE IF k = ANSWER THEN answer
         ELSE IF k = <<"A">> THEN StrValue(<<"x">>) ELSE StrValue(<<"y">>)] :
     has_answer \in {{}, {ANSWER}}, answer \in EvalAnswers}

\* what evaluation_strategy.extract_answer can give for a response
Predictions == {NoneValue, StrValue(<<"A">>), StrValue(<<" ", "a">>)}
\* how self.llm.call can end
CallOutcomes == {Returned(p) : p \in Predictions} \cup {Raised("call", NoneValue)}

InitEv ==
    [pc |-> "submit", shuffle_enabled |-> FALSE, idx |-> 0, raised |-> "",
     future |-> [i \in QuestionIds |-> "none"],
     asked |-> [i \in QuestionIds |-> <<>>],
     correct_answer |-> [i \in QuestionIds |-> <<>>],
     predicted |-> [i \in QuestionIds |-> NoneValue],
     collected |-> {}, detailed_results |-> <<>>, total_correct |-> 0,
     total_questions |-> 0, accuracy |-> Zero]

\* question_text: the question and its options, without the answer
QuestionTextOf(q) == [k \in DOMAIN q \ {ANSWER} |-> q[k]]

\* the submission loop, one question: shuffle it when the flag is set (an
\* exception of the shuffle leaves evaluate_file once the executor has shut
\* down); a KeyError or AttributeError of q["answer"].strip().upper() is logged
\* and the question skipped; any other question is handed to the executor once
\* rate_limiter.wait() returns
SubmitQuestion ==
    /\ ev.pc = "submit"
    /\ ev.idx < Len(dataset)
    /\ \E perm \in Shuffles(Len(OptionKeys(dataset[ev.idx + 1]))) :
          LET given == dataset[ev.idx + 1]
              outcome == IF ev.shuffle_enabled THEN shuffle_question_options(given, perm)
                         ELSE Returned(given)
              q == outcome.data
          IN IF outcome.raised # ""
             THEN ev' = [ev EXCEPT !.pc = "shutdown", !.raised = outcome.raised]
             ELSE IF ANSWER \notin DOMAIN q \/ q[ANSWER].type # "str"
             THEN ev' = [ev EXCEPT !.idx = @ + 1]
             ELSE ev' = [ev EXCEPT !.idx = @ + 1,
                                   !.future[ev.idx] = "running",
                                   !.asked[ev.idx] = q,
                                   !.correct_answer[ev.idx] = Upper(Strip(q[ANSWER].str))]
    /\ UNCHANGED <<cfgVars, shufVars, limVars, dataset, env, jsonl, shardJson, report, runner, writers, fin, calls,
                   hist, faults>>

\* end of the submission loop
StartCollecting ==
    /\ ev.pc = "submit"
    /\ ev.idx = Len(dataset)
    /\ ev' = [ev EXCEPT !.pc = "collect"]
    /\ UNCHANGED <<cfgVars, shufVars, limVars, dataset, env, jsonl, shardJson, report, runner, writers, fin, calls,
                   hist, faults>>

\* a worker thread ends self.llm.call for one question: the call raises, or
\* returns a response from which predicted_answer is extracted
LLMCallEnds(i, outcome) ==
    /\ ev.pc \in {"submit", "collect", "shutdown"}
    /\ ev.future[i] = "running"
    /\ ev' = IF outcome.raised # ""
             THEN [ev EXCEPT !.future[i] = "failed"]
             ELSE [ev EXCEPT !.future[i] = "done", !.predicted[i] = outcome.data]
    /\ UNCHANGED <<cfgVars, shufVars, limVars, dataset, env, jsonl, shardJson, report, runner, writers, fin, calls,
                   hist, faults>>

Completed(i) == ev.future[i] \in {"done", "failed"}
Submitted == {i \in QuestionIds : ev.future[i] # "none"}

\* variant: the prediction is compared as extracted
IsCorrect_Exact(predicted_answer, correct_answer) ==
    IF predicted_answer = NoneValue THEN FALSE
    ELSE predicted_answer.str = correct_answer

\* is_correct = False if predicted_answer is None
\*              else predicted_answer.strip().upper() == correct_answer
IsCorrect(predicted_answer, correct_answer) ==
    IF predicted_answer = NoneValue THEN FALSE
    ELSE Upper(Strip(predicted_answer.str)) = correct_answer

\* one iteration of the as_completed loop: future.result() either re-raises the
\* exception of the call, which leaves evaluate_file once the executor has shut
\* down, or gives the response, which is scored and kept in detailed_results
CollectResult(i) ==
    /\ ev.pc = "collect"
    /\ i \in Submitted \ ev.collected
    /\ Completed(i)
    /\ IF ev.future[i] = "failed"
       THEN ev' = [ev EXCEPT !.pc = "shutdown", !.raised = "call"]
       ELSE LET is_correct == IsCorrect(ev.predicted[i], ev.correct_answer[i])
            IN ev' = [ev EXCEPT
                        !.collected = @ \cup {i},
                        !.total_correct = IF is_correct THEN @ + 1 ELSE @,
                        !.total_questions = @ + 1,
                        !.detailed_results =
                            Append(@, [question_id |-> i,
                                       question |-> QuestionTextOf(ev.asked[i]),
                                       correct_answer |-> ev.correct_answer[i],
                                       predicted_answer |-> ev.predicted[i],
                                       is_correct |-> is_correct])]
    /\ UNCHANGED <<cfgVars, shufVars, limVars, dataset, env, jsonl, shardJson, report, runner, writers, fin, calls,
                   hist, faults>>

\* ThreadPoolExecutor.__exit__ with an exception in flight: wait for the running
\* calls, then let the exception leave evaluate_file
ExecutorShutdown ==
    /\ ev.pc = "shutdown"
    /\ \A i \in Submitted : Completed(i)
    /\ ev' = [ev EXCEPT !.pc = "raised"]
    /\ UNCHANGED <<cfgVars, shufVars, limVars, dataset, env, jsonl, shardJson, report, runner, writers, fin, calls,
                   hist, faults>>

\* every future collected: compute the accuracy, append detailed_results to the
\* shard log and return
WriteResults ==
    /\ ev.pc = "collect"
    /\ ev.collected = Submitted
    /\ ev' = [ev EXCEPT !.pc = "returned",
                        !.accuracy = IF ev.total_questions = 0 THEN Zero
                                     ELSE Frac(ev.total_correct, ev.total_questions)]
    /\ jsonl' = [jsonl EXCEPT ![EvalPath] = AppendLines(@, ev.detailed_results)]
    /\ writers' = [writers EXCEPT ![EvalPath] = @ \cup {1}]
    /\ UNCHANGED <<cfgVars, shufVars, limVars, dataset, env, shardJson, report, runner, fin, calls, hist, faults>>

\* ------------------------------------------------------------ RateLimiter
Threads == 1..NumThreads
\* time.time() when the limiter is built: far above last_call_time = 0
Epoch == TicksPerSecond
\* api_rate_limit: the unlimited sentinel, one call or TicksPerSecond calls a second
Rates == {-1, 1, TicksPerSecond}

\* RateLimiter.__init__
RateLimiter(calls_per_second) ==
    [no_limit |-> calls_per_second = -1,
     interval |-> IF calls_per_second # -1 THEN TicksPerSecond \div calls_per_second ELSE 0,
     last_call_time |-> 0]

IdleThread == [pc |-> "idle", wake |-> 0]

\* variant: wait() never sleeps
WaitBegin_NoSleep(t) ==
    /\ th[t].pc = "idle"
    /\ Len(admitted) + Cardinality({u \in Threads : th[u].pc # "idle"}) < MaxWaits
    /\ IF rl.no_limit
       THEN /\ admitted' = Append(admitted, [thread |-> t, at |-> now])
            /\ UNCHANGED th
       ELSE /\ th' = [th EXCEPT ![t] = [pc |-> "stamp", wake |-> 0]]
            /\ UNCHANGED admitted
    /\ UNCHANGED <<cfgVars, shufVars, now, rl, evalVars, mergeVars, env, jsonl, writers>>

\* wait() up to the sleep: return at once without a limit, else read the clock
\* and last_call_time and sleep when time_to_wait > 0
WaitBegin(t) ==
    /\ th[t].pc = "idle"
    /\ Len(admitted) + Cardinality({u \in Threads : th[u].pc # "idle"}) < MaxWaits
    /\ IF rl.no_limit
       THEN /\ admitted' = Append(admitted, [thread |-> t, at |-> now])
            /\ UNCHANGED th
       ELSE LET current_time == now
                time_to_wait == rl.interval - (current_time - rl.last_call_time)
            IN /\ th' = [th EXCEPT ![t] =
                            IF time_to_wait > 0
                            THEN [pc |-> "sleeping", wake |-> now + time_to_wait]
                            ELSE [pc |-> "stamp", wake |-> 0]]
               /\ UNCHANGED admitted
    /\ UNCHANGED <<cfgVars, shufVars, now, rl, evalVars, mergeVars, env, jsonl, writers>>

\* time.sleep(time_to_wait) returns once that much time has passed
WakeUp(t) ==
    /\ th[t].pc = "sleeping"
    /\ now >= th[t].wake
    /\ th' = [th EXCEPT ![t] = [pc |-> "stamp", wake |-> 0]]
    /\ UNCHANGED <<cfgVars, shufVars, now, rl, admitted, evalVars, mergeVars, env, jsonl, writers>>

\* self.last_call_time = time.time(), and wait() returns
WaitEnd(t) ==
    /\ th[t].pc = "stamp"
    /\ rl' = [rl EXCEPT !.last_call_time = now]
    /\ admitted' = Append(admitted, [thread |-> t, at |-> now])
    /\ th' = [th EXCEPT ![t] = IdleThread]
    /\ UNCHANGED <<cfgVars, shufVars, now, evalVars, mergeVars, env, jsonl, writers>>

\* the clock advances
Tick ==
    /\ now < Epoch + Horizon
    /\ now' = now + 1
    /\ UNCHANGED <<cfgVars, shufVars, rl, th, admitted, evalVars, mergeVars, env, jsonl, writers>>

\* ------------------------------------------------------- configuration
\* a value of a configuration: a scalar, or a dict with its items
Scalar(type, str, num) == [type |-> type, str |-> str, num |-> num, items |-> <<>>]
Dict(items) == [type |-> "dict", str |-> <<>>, num |-> 0, items |-> items]
Instance == Scalar("instance", <<>>, 0)

Has(dict, key) == key \in DOMAIN dict.items
Del(dict, key) == Dict([k \in DOMAIN dict.items \ {key} |-> dict.items[k]])
Put(dict, key, value) ==
    Dict([k \in DOMAIN dict.items \cup {key} |-> IF k = key THEN value ELSE dict.items[k]])

\* isinstance(value, (int, float)): bool is a subclass of int
IsNumber(value) == value.type \in {"int", "float", "bool"}
\* isinstance(value, str) and value.strip()
NonEmptyStr(value) == value.type = "str" /\ Strip(value.str) # <<>>

REQUIRED_SECTIONS == {"llm_api", "model", "evaluation"}
REQUIRED_LLM_API_FIELDS == {"api_key", "base_url"}
REQUIRED_MODEL_FIELDS == {"name"}
REQUIRED_EVALUATION_FIELDS == {"dataset_paths", "evaluation_method"}

\* the validators return True, or raise ValidationError (FALSE here)
_validate_llm_api_config(llm_config) ==
    /\ \A field \in REQUIRED_LLM_API_FIELDS :
          Has(llm_config, field) /\ NonEmptyStr(llm_config.items[field])
    /\ Has(llm_config, "api_rate_limit") => IsNumber(llm_config.items["api_rate_limit"])

_validate_model_config(model_config) ==
    \A field \in REQUIRED_MODEL_FIELDS :
        Has(model_config, field) /\ NonEmptyStr(model_config.items[field])

_validate_evaluation_config(eval_config) ==
    /\ \A field \in REQUIRED_EVALUATION_FIELDS : Has(eval_config, field)
    /\ NonEmptyStr(eval_config.items["dataset_paths"])
    /\ NonEmptyStr(eval_config.items["evaluation_method"])

validate_config_structure(config) ==
    /\ \A section \in REQUIRED_SECTIONS :
          Has(config, section) /\ config.items[section].type = "dict"
    /\ _validate_llm_api_config(config.items["llm_api"])
    /\ _validate_model_config(config.items["model"])
    /\ _validate_evaluation_config(config.items["evaluation"])

\* the defaults of the fields the configurations of the model may leave out
_apply_defaults(config) ==
    LET llm_api == config.items["llm_api"]
        evaluation == config.items["evaluation"]
        with_rate == IF Has(llm_api, "api_rate_limit") THEN llm_api
                     ELSE Put(llm_api, "api_rate_limit", Scalar("int", <<>>, -1))
        with_runs == IF Has(evaluation, "repeat_runs") THEN evaluation
                     ELSE Put(evaluation, "repeat_runs", Scalar("int", <<>>, DefaultRepeatRuns))
    IN Put(Put(config, "llm_api", with_rate), "evaluation", with_runs)

_instantiate_components(config) ==
    Put(Put(config, "llm_instance", Instance), "evaluation_strategy_instance", Instance)

\* ConfigurationManager.load_config on the document yaml.safe_load returned
load_config(document) ==
    IF ~validate_config_structure(document) THEN Raised("ValidationError", Dict(<<>>))
    ELSE Returned(_instantiate_components(_apply_defaults(document)))

\* the beginning of run_evaluation: self.config["llm_instance"], then
\* Evaluator.__init__ builds RateLimiter(config["llm_api"]["api_rate_limit"])
NewEvaluator(config) ==
    IF ~Has(config, "llm_instance") \/ ~Has(config, "evaluation_strategy_instance")
    THEN Raised("KeyError", RateLimiter(-1))
    ELSE LET calls_per_second == config.items["llm_api"].items["api_rate_limit"].num
         IN IF calls_per_second # -1 /\ calls_per_second = 0
            THEN Raised("ZeroDivisionError", RateLimiter(-1))
            ELSE Returned(RateLimiter(calls_per_second))

\* variant: the copy keeps the API key
_prepare_config_for_saving_WithKey(config) ==
    LET live == IF Has(config, "llm_instance") THEN Del(config, "llm_instance") ELSE config
        no_strategy == IF Has(live, "evaluation_strategy_instance")
                       THEN Del(live, "evaluation_strategy_instance") ELSE live
    IN [config |-> live, save_config |-> no_strategy]

\* _prepare_config_for_saving: llm_instance is deleted from self.config itself,
\* the API key and the strategy instance from a deep copy of it
_prepare_config_for_saving(config) ==
    LET live == IF Has(config, "llm_instance") THEN Del(config, "llm_instance") ELSE config
        no_key == IF Has(live, "llm_api") /\ Has(live.items["llm_api"], "api_key")
                  THEN Put(live, "llm_api", Del(live.items["llm_api"], "api_key"))
                  ELSE live
        no_strategy == IF Has(no_key, "evaluation_strategy_instance")
                       THEN Del(no_key, "evaluation_strategy_instance") ELSE no_key
    IN [config |-> live, save_config |-> no_strategy]

\* no configuration loaded
NoConf(document) ==
    [pc |-> "start", yaml |-> document, config |-> Dict(<<>>), raised |-> "",
     rate_limiter |-> RateLimiter(-1), saved |-> Dict(<<>>), runs |-> 0]

\* TwinkleEvalRunner.initialize: load_config(config_path)
LoadConfig ==
    /\ conf.pc = "start"
    /\ LET loaded == load_config(conf.yaml)
       IN conf' = IF loaded.raised # ""
                  THEN [conf EXCEPT !.pc = "rejected", !.raised = loaded.raised]
                  ELSE [conf EXCEPT !.pc = "loaded", !.config = loaded.data]
    /\ UNCHANGED <<repeat_runs, shufVars, evalVars, limVars, mergeVars, env, jsonl, writers>>

\* run_evaluation up to the construction of the Evaluator
CreateEvaluator ==
    /\ conf.pc \in {"loaded", "exported"}
    /\ LET evaluator == NewEvaluator(conf.config)
       IN conf' = IF evaluator.raised # ""
                  THEN [conf EXCEPT !.pc = "crashed", !.raised = evaluator.raised]
                  ELSE [conf EXCEPT !.pc = "evaluating", !.rate_limiter = evaluator.data]
    /\ UNCHANGED <<repeat_runs, shufVars, evalVars, limVars, mergeVars, env, jsonl, writers>>

\* the end of run_evaluation: final_results["config"] is exported
ExportFinalResults ==
    /\ conf.pc = "evaluating"
    /\ LET prepared == _prepare_config_for_saving(conf.config)
       IN conf' = [conf EXCEPT !.pc = "exported",
                               !.config = prepared.config,
                               !.saved = prepared.save_config,
                               !.runs = @ + 1]
    /\ UNCHANGED <<repeat_runs, shufVars, evalVars, limVars, mergeVars, env, jsonl, writers>>


\* ---------------------------------------------------------- specification
InitRunner == [pc |-> "eval", pos |-> 0, file_accuracies |-> <<>>,
               file_results |-> <<>>, results |-> <<>>, raised_at |-> {}]

\* not under SLURM, or one SLURM task per node
Environments == {[p \in Procs |-> Unset], [p \in Procs |-> p - 1]}

Init ==
    /\ conf = NoConf(Dict(<<>>))
    /\ repeat_runs = DefaultRepeatRuns
    /\ env \in Environments
    /\ jsonl = [jp \in AllPaths |-> AbsentFile]
    /\ shardJson = [p \in Procs |-> AbsentJson]
    /\ report = AbsentJson
    /\ runner = [p \in Procs |-> InitRunner]
    /\ writers = [jp \in AllPaths |-> {}]
    /\ fin = IdleFin
    /\ calls = 0
    /\ hist = <<>>
    /\ faults = 0
    /\ dataset = <<>>
    /\ ev = InitEv
    /\ now = Epoch
    /\ rl = RateLimiter(-1)
    /\ th = [t \in Threads |-> IdleThread]
    /\ admitted = <<>>
    /\ question_data = <<>>
    /\ shuffled = NotCalled

Next ==
    \/ \E p \in Procs : EvaluateFile(p)
    \/ \E p \in Procs : EvaluateFileRaises(p)
    \/ \E p \in Procs : EvaluateFileInterrupted(p)
    \/ \E p \in Procs : ExportShardSummary(p)
    \/ \E p \in Procs, corrupt \in BOOLEAN : DamageSummary(p, corrupt)
    \/ \E p \in Procs : RunEvaluationExport(p)
    \/ FinalizeNotFound
    \/ \E hf_repo_id, upload_ok \in BOOLEAN : FinalizeSingleNode(hf_repo_id, upload_ok)
    \/ FinalizeDiscover
    \/ \E write_ok \in BOOLEAN : MergeRun(write_ok)
    \/ \E export_ok \in BOOLEAN : AssembleAndExport(export_ok)
    \/ \E json_errors \in SUBSET Procs, jsonl_errors \in SUBSET ShardPaths :
          Cleanup(json_errors, jsonl_errors)
    \/ \E hf_repo_id, upload_ok \in BOOLEAN : UploadAndReturn(hf_repo_id, upload_ok)

Spec == Init /\ [][Next]_vars

\* a repeated evaluation (evaluation.repeat_runs > 1) of one SLURM task per node
\* and its merge, the file
\* operations and the upload of the merge succeeding
InitRuns ==
    /\ conf = NoConf(Dict(<<>>))
    /\ repeat_runs = MaxRuns
    /\ env = [p \in Procs |-> p - 1]
    /\ jsonl = [jp \in AllPaths |-> AbsentFile]
    /\ shardJson = [p \in Procs |-> AbsentJson]
    /\ report = AbsentJson
    /\ runner = [p \in Procs |-> InitRunner]
    /\ writers = [jp \in AllPaths |-> {}]
    /\ fin = IdleFin
    /\ calls = 0
    /\ hist = <<>>
    /\ faults = 0
    /\ dataset = <<>>
    /\ ev = InitEv
    /\ now = Epoch
    /\ rl = RateLimiter(-1)
    /\ th = [t \in Threads |-> IdleThread]
    /\ admitted = <<>>
    /\ question_data = <<>>
    /\ shuffled = NotCalled

NextRuns ==
    \/ \E p \in Procs : EvaluateFile(p)
    \/ \E p \in Procs : EvaluateFileRaises(p)
    \/ \E p \in Procs : ExportShardSummary(p)
    \/ \E p \in Procs : DropAccuracy(p)
    \/ FinalizeDiscover
    \/ MergeRun(TRUE)
    \/ AssembleAndExport(TRUE)
    \/ Cleanup({}, {})
    \/ \E hf_repo_id \in BOOLEAN : UploadAndReturn(hf_repo_id, TRUE)

SpecRuns == InitRuns /\ [][NextRuns]_vars

\* one evaluate_file execution over any file of at most MaxQuestions questions
InitEval ==
    /\ conf = NoConf(Dict(<<>>))
    /\ repeat_runs = DefaultRepeatRuns
    /\ env \in Environments
    /\ jsonl = [jp \in AllPaths |-> AbsentFile]
    /\ shardJson = [p \in Procs |-> AbsentJson]
    /\ report = AbsentJson
    /\ runner = [p \in Procs |-> InitRunner]
    /\ writers = [jp \in AllPaths |-> {}]
    /\ fin = IdleFin
    /\ calls = 0
    /\ hist = <<>>
    /\ faults = 0
    /\ dataset \in UNION {[1..n -> EvalQuestions] : n \in 0..MaxQuestions}
    /\ \E shuffle_enabled \in BOOLEAN : ev = [InitEv EXCEPT !.shuffle_enabled = shuffle_enabled]
    /\ now = Epoch
    /\ rl = RateLimiter(-1)
    /\ th = [t \in Threads |-> IdleThread]
    /\ admitted = <<>>
    /\ question_data = <<>>
    /\ shuffled = NotCalled

NextEval ==
    \/ SubmitQuestion
    \/ StartCollecting
    \/ \E i \in QuestionIds, outcome \in CallOutcomes : LLMCallEnds(i, outcome)
    \/ \E i \in QuestionIds : CollectResult(i)
    \/ ExecutorShutdown
    \/ WriteResults

SpecEval == InitEval /\ [][NextEval]_vars

\* one RateLimiter of any rate, shared by the threads
InitLimiter ==
    /\ conf = NoConf(Dict(<<>>))
    /\ repeat_runs = DefaultRepeatRuns
    /\ env = [p \in Procs |-> Unset]
    /\ jsonl = [jp \in AllPaths |-> AbsentFile]
    /\ shardJson = [p \in Procs |-> AbsentJson]
    /\ report = AbsentJson
    /\ runner = [p \in Procs |-> InitRunner]
    /\ writers = [jp \in AllPaths |-> {}]
    /\ fin = IdleFin
    /\ calls = 0
    /\ hist = <<>>
    /\ faults = 0
    /\ dataset = <<>>
    /\ ev = InitEv
    /\ now = Epoch
    /\ \E calls_per_second \in Rates : rl = RateLimiter(calls_per_second)
    /\ th = [t \in Threads |-> IdleThread]
    /\ admitted = <<>>
    /\ question_data = <<>>
    /\ shuffled = NotCalled

NextLimiter ==
    \/ \E t \in Threads : WaitBegin(t)
    \/ \E t \in Threads : WakeUp(t)
    \/ \E t \in Threads : WaitEnd(t)
    \/ Tick

SpecLimiter == InitLimiter /\ [][NextLimiter]_vars

\* any question of at most MaxOptions options, with any kind of answer field
OptionLabels == {SubSeq(ascii_uppercase, i, i) : i \in 1..MaxOptions}
OptionTexts == {StrValue(<<"x">>), StrValue(<<"y">>), NoneValue}
Answers ==
    {StrValue(k) : k \in OptionLabels}
        \cup {StrValue(SubSeq(ascii_uppercase, MaxOptions + 1, MaxOptions + 1)),
              StrValue(<<" ", "a">>), StrValue(QUESTION), StrValue(ANSWER),
              NoneValue, IntValue, ListValue}
Questions ==
    UNION {UNION {{[k \in keys \cup {QUESTION} \cup has_answer |->
                      IF k = QUESTION THEN StrValue(<<"x">>)
                      ELSE IF k = ANSWER THEN answer
                      ELSE texts[k]] :
                   texts \in [keys -> OptionTexts], answer \in Answers} :
                  has_answer \in {{}, {ANSWER}}} :
           keys \in SUBSET OptionLabels}

\* one call of shuffle_question_options
ShuffleQuestion ==
    /\ shuffled = NotCalled
    /\ \E perm \in Shuffles(Len(OptionKeys(question_data))) :
          shuffled' = shuffle_question_options(question_data, perm)
    /\ UNCHANGED <<cfgVars, question_data, limVars, evalVars, mergeVars, env, jsonl, writers>>

InitShuffle ==
    /\ conf = NoConf(Dict(<<>>))
    /\ repeat_runs = DefaultRepeatRuns
    /\ env = [p \in Procs |-> Unset]
    /\ jsonl = [jp \in AllPaths |-> AbsentFile]
    /\ shardJson = [p \in Procs |-> AbsentJson]
    /\ report = AbsentJson
    /\ runner = [p \in Procs |-> InitRunner]
    /\ writers = [jp \in AllPaths |-> {}]
    /\ fin = IdleFin
    /\ calls = 0
    /\ hist = <<>>
    /\ faults = 0
    /\ dataset = <<>>
    /\ ev = InitEv
    /\ now = Epoch
    /\ rl = RateLimiter(-1)
    /\ th = [t \in Threads |-> IdleThread]
    /\ admitted = <<>>
    /\ question_data \in Questions
    /\ shuffled = NotCalled

NextShuffle == ShuffleQuestion

SpecShuffle == InitShuffle /\ [][NextShuffle]_vars

\* a configuration is loaded, an Evaluator built and the results exported
ApiKeys == {Scalar("str", <<"k", "1">>, 0), Scalar("str", <<"k", "2">>, 0)}
\* api_key: a key, a blank string, a number
ApiKeyValues == ApiKeys \cup {Scalar("str", <<" ">>, 0), Scalar("int", <<>>, 1)}
\* api_rate_limit: integers, the float -1.0, the booleans, a string, None
RateValues ==
    {Scalar("int", <<>>, n) : n \in (-TicksPerSecond)..TicksPerSecond}
    \cup {Scalar("float", <<>>, -1), Scalar("bool", <<>>, 0), Scalar("bool", <<>>, 1),
          Scalar("str", <<"1">>, 0), Scalar("NoneType", <<>>, 0)}
LlmApiSections ==
    {Dict([k \in D |-> IF k = "api_key" THEN api_key
                       ELSE IF k = "base_url" THEN Scalar("str", <<"u">>, 0)
                       ELSE api_rate_limit]) :
        D \in SUBSET {"api_key", "base_url", "api_rate_limit"},
        api_key \in ApiKeyValues, api_rate_limit \in RateValues}
    \cup {Scalar("str", <<"u">>, 0)}
ModelSections == {Dict([k \in {"name"} |-> Scalar("str", <<"m">>, 0)]), Dict(<<>>)}
EvaluationSections ==
    {Dict([k \in D |-> Scalar("str", <<"d">>, 0)]) :
        D \in {{"dataset_paths", "evaluation_method"}, {"dataset_paths"}}}
Documents ==
    {Dict([k \in D |-> IF k = "llm_api" THEN llm_api
                       ELSE IF k = "model" THEN model ELSE evaluation]) :
        D \in SUBSET REQUIRED_SECTIONS, llm_api \in LlmApiSections,
        model \in ModelSections, evaluation \in EvaluationSections}

InitConfig ==
    /\ conf \in {NoConf(document) : document \in Documents}
    /\ repeat_runs = DefaultRepeatRuns
    /\ env = [p \in Procs |-> Unset]
    /\ jsonl = [jp \in AllPaths |-> AbsentFile]
    /\ shardJson = [p \in Procs |-> AbsentJson]
    /\ report = AbsentJson
    /\ runner = [p \in Procs |-> InitRunner]
    /\ writers = [jp \in AllPaths |-> {}]
    /\ fin = IdleFin
    /\ calls = 0
    /\ hist = <<>>
    /\ faults = 0
    /\ dataset = <<>>
    /\ ev = InitEv
    /\ now = Epoch
    /\ rl = RateLimiter(-1)
    /\ th = [t \in Threads |-> IdleThread]
    /\ admitted = <<>>
    /\ question_data = <<>>
    /\ shuffled = NotCalled

NextConfig ==
    \/ LoadConfig
    \/ CreateEvaluator
    \/ ExportFinalResults

SpecConfig == InitConfig /\ [][NextConfig]_vars

\* ------------------------------------------------------------------ claims
LastCall == hist[Len(hist)]

\* C1: no shard summary and no shard log is deleted unless the export of
\* results_{T}.json has returned successfully in this invocation
C1_DeleteOnlyAfterExport ==
    [][((\E p \in Procs : shardJson[p].exists /\ ~shardJson'[p].exists)
        \/ (\E jp \in ShardPaths : jsonl[jp].exists /\ ~jsonl'[jp].exists))
       => fin.exported]_vars

\* the summaries declaring run_idx of a file, the log each declares for it, and
\* the records of that file in a log
Declaring(file, run_idx) ==
    {p \in Procs : /\ shardJson[p].exists
                   /\ \E k \in 1..Len(shardJson[p].results) :
                        /\ shardJson[p].results[k].file = file
                        /\ run_idx < Len(shardJson[p].results[k].results)}
DeclaredLog(p, file, run_idx) ==
    LET k == CHOOSE i \in 1..Len(shardJson[p].results) : shardJson[p].results[i].file = file
    IN shardJson[p].results[k].results[run_idx + 1]
RecordsOfFile(file, jp) == SelectSeq(jsonl[jp].lines, LAMBDA e : e.question[1] = file)
QuestionIdsOf(file, jp) ==
    {RecordsOfFile(file, jp)[i].question_id : i \in 1..Len(RecordsOfFile(file, jp))}

RECURSIVE SumFn(_)
SumFn(f) ==
    IF DOMAIN f = {} THEN 0
    ELSE LET x == CHOOSE y \in DOMAIN f : TRUE
         IN f[x] + SumFn([y \in DOMAIN f \ {x} |-> f[y]])
SumOver(S, F(_)) == SumFn([x \in S |-> F(x)])

\* several summaries declare the run of the file, with different existing logs
\* holding disjoint question subsets, at least one record in all
DisjointShards(file, run_idx) ==
    LET D == Declaring(file, run_idx)
    IN /\ Cardinality(D) >= 2
       /\ \A p \in D : jsonl[DeclaredLog(p, file, run_idx)].exists
       /\ \A p, q \in D : p # q =>
             /\ DeclaredLog(p, file, run_idx) # DeclaredLog(q, file, run_idx)
             /\ QuestionIdsOf(file, DeclaredLog(p, file, run_idx))
                  \cap QuestionIdsOf(file, DeclaredLog(q, file, run_idx)) = {}
       /\ \E p \in D : RecordsOfFile(file, DeclaredLog(p, file, run_idx)) # <<>>

PooledAccuracy(file, run_idx) ==
    LET logs == {DeclaredLog(p, file, run_idx) : p \in Declaring(file, run_idx)}
        Correct(jp) == Count(RecordsOfFile(file, jp), LAMBDA e : e.is_correct)
        Total(jp) == Len(RecordsOfFile(file, jp))
    IN Frac(SumOver(logs, Correct), SumOver(logs, Total))

\* C2: for disjoint shards of one run of one file the reported per-run accuracy
\* is correct records over all records of those shards
C2_PooledAccuracy ==
    (fin.pc = "cleanup" /\ fin.exported) =>
        \A k \in 1..Len(report.results) :
            LET fr == report.results[k]
            IN \A j \in 1..Len(fr.accuracies) :
                  DisjointShards(fr.file, fr.results[j].run) =>
                      fr.accuracies[j] = PooledAccuracy(fr.file, fr.results[j].run)

\* C4: after a merge that returned 0 and deleted the shard summaries, a second
\* call without upload takes the single-result branch, returns 0 and leaves every
\* file as it is
C4_MergeIdempotent ==
    [][(/\ fin.pc = "done"
        /\ hist # <<>>
        /\ LastCall.branch = "merge" /\ LastCall.ret = 0
        /\ ShardGlob = <<>>
        /\ calls' = calls + 1
        /\ ~hist'[Len(hist')].hf_repo_id)
       => /\ hist' = Append(hist, Ended("single", FALSE, 0))
          /\ fin'.pc = "done" /\ fin'.ret = 0
          /\ jsonl' = jsonl /\ shardJson' = shardJson /\ report' = report]_vars

C4_Witness ==
    /\ Len(hist) = 2
    /\ hist[1].branch = "merge" /\ hist[1].ret = 0
    /\ hist[2] = Ended("single", FALSE, 0)
    /\ report.exists
    /\ \E r \in Runs : jsonl[MergedPath(r)].lines # <<>>

\* C5: in every merged run log the question_id values of consecutive records
\* are strictly increasing
C5_StrictlyAscending ==
    \A r \in Runs :
        LET l == jsonl[MergedPath(r)].lines
        IN \A i \in 1..(Len(l) - 1) : l[i].question_id < l[i + 1].question_id

\* what the stable sort of phase 2 does establish: in every merged run log
\* the question_id values of consecutive records never decrease
C5_Ascending ==
    \A r \in Runs :
        LET l == jsonl[MergedPath(r)].lines
        IN \A i \in 1..(Len(l) - 1) : l[i].question_id <= l[i + 1].question_id

\* a shard log written in descending completion order has been merged
C5_Witness ==
    /\ fin.pc = "cleanup"
    /\ \E jp \in ShardPaths :
          /\ jp \in fin.shard_jsonl_files
          /\ \E i, j \in 1..Len(jsonl[jp].lines) :
                i < j /\ jsonl[jp].lines[i].question_id > jsonl[jp].lines[j].question_id
          /\ Len(jsonl[MergedPath(jp.run)].lines) >= 2

\* the existing shard logs declared at list position run_idx by any summary
DeclaredLogsOfRun(run_idx) ==
    {jp \in ShardPaths :
        /\ jsonl[jp].exists
        /\ \E i \in 1..Len(fin.declared) :
              fin.declared[i].run_idx = run_idx /\ fin.declared[i].path = jp}

Occurrences(lines, e) == Count(lines, LAMBDA x : x = e)

\* C6: once the runs are merged, each observed run index has its merged log, and
\* every record occurs in it as often as in all the existing shard logs declared
\* for that run index, each log counted once
C6_MergedExactlyOnce ==
    (fin.pc \in {"merge", "cleanup"}) =>
        \A r \in fin.merged_runs :
            LET merged == jsonl[MergedPath(r)]
                logs == DeclaredLogsOfRun(r)
                all == Range(merged.lines) \cup UNION {Range(jsonl[jp].lines) : jp \in logs}
            IN /\ merged.exists
               /\ \A e \in all :
                     Occurrences(merged.lines, e)
                        = SumOver(logs, LAMBDA jp : Occurrences(jsonl[jp].lines, e))

\* a shard log declared more than once (by two files or two summaries) was merged
C6_Witness ==
    /\ fin.pc = "cleanup" /\ fin.exported
    /\ \E r \in fin.merged_runs : \E jp \in DeclaredLogsOfRun(r) :
          /\ jsonl[jp].lines # <<>>
          /\ Cardinality({i \in 1..Len(fin.declared) :
                            fin.declared[i].run_idx = r /\ fin.declared[i].path = jp}) >= 2

\* C7: a call that found and merged shard summaries returns 0, a call that found
\* none but found results_{T}.json returns 0 whatever the upload did, and a call
\* that found neither returns 1
C7_ExitStatus ==
    \A i \in 1..Len(hist) :
        /\ (hist[i].branch = "merge" /\ hist[i].ret # NoRet) => hist[i].ret = 0
        /\ hist[i].branch = "single" => hist[i].ret = 0
        /\ hist[i].branch = "notfound" => hist[i].ret = 1

\* C9: no shard log is appended to by two processes of one evaluation
C9_DistinctShardLogs ==
    \A jp \in ShardPaths : Cardinality(writers[jp]) <= 1

\* the records that exist: one per collected response
ProducedRecords == ev.detailed_results
OnDisk(d) == \E k \in 1..Len(jsonl[EvalPath].lines) : jsonl[EvalPath].lines[k] = d
MissingFromDisk == Count(ProducedRecords, LAMBDA d : ~OnDisk(d))

\* C3: when the call of some question failed, evaluate_file still returns, the
\* record of every question whose call succeeded is in the shard log, and the
\* accuracy is taken over those records only
C3_FailedCallDropsOneRecord ==
    (/\ ev.pc \in {"returned", "raised"}
     /\ ev.raised \in {"", "call"}
     /\ \E i \in QuestionIds : ev.future[i] = "failed") =>
        /\ ev.pc = "returned"
        /\ \A i \in QuestionIds :
              ev.future[i] = "done" =>
                  \E k \in 1..Len(jsonl[EvalPath].lines) :
                      jsonl[EvalPath].lines[k].question_id = i
        /\ ev.total_questions = Cardinality({i \in QuestionIds : ev.future[i] = "done"})

\* C8: at every point at most one produced record is missing from the shard log
C8_AtMostOneRecordInFlight == MissingFromDisk <= 1

\* C10: with a rate r > 0, any two returns of wait() are at least 1/r apart
C10_AdmissionsSpaced ==
    ~rl.no_limit =>
        \A i, j \in 1..Len(admitted) :
            i < j => admitted[j].at - admitted[i].at >= rl.interval

\* the calls of wait() made so far all come from thread t
SingleCaller(t) ==
    /\ \A i \in 1..Len(admitted) : admitted[i].thread = t
    /\ \A u \in Threads \ {t} : th[u].pc = "idle"

\* C11: with a single caller and a rate r > 0, consecutive returns of wait()
\* are at least 1/r apart, n returns span at least (n-1)/r and the first call
\* does not sleep; without a limit wait() returns in the step that calls it
\* and last_call_time keeps its initial value
C11_SingleCallerPaced ==
    /\ ~rl.no_limit =>
          \A t \in Threads :
              SingleCaller(t) =>
                  /\ \A i \in 1..(Len(admitted) - 1) :
                        admitted[i + 1].at - admitted[i].at >= rl.interval
                  /\ Len(admitted) >= 1 =>
                        admitted[Len(admitted)].at - admitted[1].at
                            >= (Len(admitted) - 1) * rl.interval
                  /\ admitted = <<>> => th[t].pc # "sleeping"
    /\ rl.no_limit =>
          /\ rl.last_call_time = 0
          /\ \A t \in Threads : th[t] = IdleThread

\* one thread has made MaxWaits paced calls, each as early as the limiter allows
C11_Witness ==
    /\ ~rl.no_limit
    /\ \E t \in Threads : SingleCaller(t)
    /\ Len(admitted) = MaxWaits
    /\ admitted[Len(admitted)].at - admitted[1].at = (Len(admitted) - 1) * rl.interval

\* the answer field of the question is a str naming one of its options
AnswerIsOption(data) ==
    /\ ANSWER \in DOMAIN data
    /\ data[ANSWER].type = "str"
    /\ data[ANSWER].str \in Range(OptionKeys(data))

\* how many options of the question carry the text
TextCount(data, text) ==
    Cardinality({i \in 1..Len(OptionKeys(data)) : data[OptionKeys(data)[i]] = text})

\* C13: shuffle_question_options applied to a question whose answer label is one
\* of its option keys returns a question with the same option keys, the same
\* multiset of option texts and the same non-option fields, whose answer label
\* maps to the text the original answer label mapped to
C13_ShufflePreserves ==
    (shuffled # NotCalled /\ AnswerIsOption(question_data)) =>
        /\ shuffled.raised = ""
        /\ LET old == question_data
               new == shuffled.data
           IN /\ DOMAIN new = DOMAIN old
              /\ OptionKeys(new) = OptionKeys(old)
              /\ \A text \in OptionTexts : TextCount(new, text) = TextCount(old, text)
              /\ \A k \in (DOMAIN old \ Range(OptionKeys(old))) \ {ANSWER} : new[k] = old[k]
              /\ AnswerIsOption(new)
              /\ new[new[ANSWER].str] = old[old[ANSWER].str]

\* a question with two options of the same text came back with the other label
C13_Witness ==
    /\ shuffled.raised = ""
    /\ AnswerIsOption(question_data)
    /\ shuffled.data # question_data
    /\ shuffled.data[ANSWER] # question_data[ANSWER]
    /\ \E text \in OptionTexts : TextCount(question_data, text) >= 2

\* C14: shuffle_question_options returns the question unchanged whenever its
\* answer value is not the key of one of its options, and never returns a
\* question that lost its answer field or whose answer label stopped naming an
\* option
C14_UnanswerableLeftAlone ==
    shuffled # NotCalled =>
        /\ ~AnswerIsOption(question_data) => shuffled = Returned(question_data)
        /\ (shuffled.raised = "" /\ ANSWER \in DOMAIN question_data) =>
              ANSWER \in DOMAIN shuffled.data
        /\ (shuffled.raised = "" /\ AnswerIsOption(question_data)) =>
              AnswerIsOption(shuffled.data)

\* C12: every record evaluate_file appends has is_correct true exactly when its
\* predicted_answer is not None and, trimmed and uppercased, equals the trimmed
\* and uppercased answer label of the question asked
C12_IsCorrectIffLabelsMatch ==
    \A jp \in {EvalPath} :
        \A k \in 1..Len(jsonl[jp].lines) :
            LET d == jsonl[jp].lines[k]
                q == IF ev.shuffle_enabled THEN ev.asked[d.question_id]
                     ELSE dataset[d.question_id + 1]
            IN d.is_correct <=>
                  /\ d.predicted_answer # NoneValue
                  /\ Upper(Strip(d.predicted_answer.str)) = Upper(Strip(q[ANSWER].str))

\* the shard log holds a record scored correct whose prediction and answer label
\* differ as written, and a record scored wrong
C12_Witness ==
    /\ ev.pc = "returned"
    /\ \E k \in 1..Len(jsonl[EvalPath].lines) :
          LET d == jsonl[EvalPath].lines[k]
          IN /\ d.is_correct
             /\ d.predicted_answer.str # dataset[d.question_id + 1][ANSWER].str
    /\ \E k \in 1..Len(jsonl[EvalPath].lines) : ~jsonl[EvalPath].lines[k].is_correct

\* the answer field of the question is missing or is no str
Untrimmable(q) == ANSWER \notin DOMAIN q \/ q[ANSWER].type # "str"

\* C15: a question whose answer field is missing, is no string or cannot be
\* trimmed gets no LLM call and no record and does not stop the evaluation of
\* the other questions, with the shuffle flag on or off
C15_DefectiveQuestionSkipped ==
    /\ \A i \in 0..(ev.idx - 1) :
          Untrimmable(dataset[i + 1]) =>
              /\ ev.future[i] = "none"
              /\ \A k \in 1..Len(ev.detailed_results) : ev.detailed_results[k].question_id # i
    /\ ev.raised \in {"", "call"}
    /\ ev.pc = "returned" =>
          \A i \in 0..(Len(dataset) - 1) :
              ~Untrimmable(dataset[i + 1]) =>
                  \E k \in 1..Len(jsonl[EvalPath].lines) :
                      jsonl[EvalPath].lines[k].question_id = i

\* the trimmed and uppercased answer label of the question names one of its options
LabelIsOption(q) ==
    /\ ~Untrimmable(q)
    /\ Upper(Strip(q[ANSWER].str)) \in Range(OptionKeys(q))

\* C16: evaluate_file produces no record for a question whose answer label is
\* not a key of its options and does not count it in the accuracy denominator
C16_AnswerOutsideOptionsSkipped ==
    /\ \A k \in 1..Len(ev.detailed_results) :
          LabelIsOption(dataset[ev.detailed_results[k].question_id + 1])
    /\ ev.total_questions <=
          Cardinality({i \in 0..(Len(dataset) - 1) : LabelIsOption(dataset[i + 1])})

\* the files of which some run of process p returned
ReportedFiles(p) ==
    {f \in Files : \E pos \in 0..(runner[p].pos - 1) :
                      FileAt(pos) = f /\ pos \notin runner[p].raised_at}

\* C17: when evaluate_file raised on every run of a file, _evaluate_dataset
\* reports no FileResult for it, still evaluates and reports every other file,
\* and averages over the reported files only
C17_FailedFileSkipped ==
    \A p \in Procs :
        (runner[p].pos = LoopEnd /\ shardJson[p].exists) =>
            LET results == shardJson[p].results
                reported == ReportedFiles(p)
                total == FracSum([i \in 1..Len(results) |-> results[i].accuracy_mean])
            IN /\ {results[i].file : i \in 1..Len(results)} = reported
               /\ Len(results) = Cardinality(reported)
               /\ shardJson[p].average_accuracy =
                     IF reported = {} THEN Zero
                     ELSE Frac(total[1], total[2] * Cardinality(reported))

\* a process whose evaluate_file raised for one file has reported another file
\* of non-zero accuracy
C17_Witness ==
    \E p \in Procs :
        /\ runner[p].pos = LoopEnd /\ shardJson[p].exists
        /\ runner[p].raised_at # {}
        /\ shardJson[p].results # <<>>
        /\ shardJson[p].average_accuracy # Zero

\* the shard summaries and tracked shard logs of the invocation still on disk
\* after the step
Survivors ==
    Cardinality({q \in Range(fin.json_shards) : shardJson'[q].exists})
        + Cardinality({jp \in fin.shard_jsonl_files : jsonl'[jp].exists})

\* C18: in the clean-up every file whose deletion does not fail is deleted, how
\* many deletions fail notwithstanding, and after a successful export the call
\* goes on to return 0 with the exported report in place
C18_CleanupBestEffort ==
    [][/\ (fin.pc = "cleanup" /\ fin' # fin) =>
            /\ Survivors = faults' - faults
            /\ fin.exported => (fin'.pc = "upload" /\ report.exists /\ report' = report)
       /\ (fin.pc = "upload" /\ fin' # fin) =>
            (fin'.pc = "done" /\ fin'.ret = 0 /\ report.exists /\ report' = report)]_vars

\* a merge returned 0 with the report in place, one shard summary having
\* resisted deletion while a shard log was deleted
C18_Witness ==
    /\ fin.pc = "done" /\ fin.ret = 0
    /\ LastCall.branch = "merge"
    /\ report.exists
    /\ \E q \in Procs : shardJson[q].exists
    /\ \E jp \in ShardPaths : writers[jp] # {} /\ ~jsonl[jp].exists

\* the per-file per-run accuracies of a final report
AccuraciesOf(doc) ==
    {[file |-> doc.results[i].file, accuracies |-> doc.results[i].accuracies] :
        i \in 1..Len(doc.results)}

\* the invocation in progress follows a merge that returned 0, so the shards it
\* found are those whose deletion failed
RetryMerge ==
    /\ hist # <<>>
    /\ LastCall.branch = "merge" /\ LastCall.ret = 0
    /\ fin.pc = "merge"

\* C19: a merge re-run over the shards a successful merge could not delete
\* writes merged run logs with the records of the first merge and a report with
\* the per-file per-run accuracies of the first merge
C19_RetryMergeSameResult ==
    [][RetryMerge =>
          /\ \A r \in Runs :
                jsonl[MergedPath(r)].exists =>
                    jsonl'[MergedPath(r)].lines = jsonl[MergedPath(r)].lines
          /\ report' # report => AccuraciesOf(report') = AccuraciesOf(report)]_vars

\* C20: whatever the declared shard logs of a run hold (a prefix of the records,
\* with or without an incompletely written last record, or nothing at all), the
\* merge of the run completes and the merged run log holds exactly the complete
\* records present in the existing declared logs
C20_PartialLogsTolerated ==
    [][(fin.pc = "merge" /\ PendingRuns # {} /\ faults' = faults /\ fin' # fin) =>
          LET run_idx == CHOOSE r \in PendingRuns : \A x \in PendingRuns : r <= x
              present == AllEntries(RunJsonlShards(fin.declared, run_idx))
              merged == jsonl'[MergedPath(run_idx)]
          IN /\ fin'.pc = "merge" /\ ~fin'.raised
             /\ run_idx \in fin'.merged_runs
             /\ merged.exists
             /\ Len(merged.lines) = Len(present)
             /\ \A k \in 1..Len(present) :
                   Occurrences(merged.lines, present[k]) = Occurrences(present, present[k])]_vars

\* accuracy figures a summary can carry
Figures == {Frac(n, d) : n \in 0..MaxQuestions, d \in 1..MaxQuestions}

\* the summaries on disk with one pre-computed accuracy replaced by another figure
AlteredSummaries ==
    {[shardJson EXCEPT ![q].results[k].accuracies[j] = figure] :
        q \in {x \in Procs : shardJson[x].exists},
        k \in 1..NumFiles, j \in 1..repeat_runs, figure \in Figures} \ {shardJson}

\* C21: once the merged run logs are written, the accuracy finalize_results
\* computes for a (file, run) whose declared shard logs held a record of the file
\* is the same whatever pre-computed accuracies the shard summaries carry
C21_PrecomputedAccuracyIgnored ==
    (fin.pc = "merge" /\ PendingRuns = {}) =>
        \A i \in 1..Len(fin.declared) :
            LET file == fin.declared[i].file
                run_idx == fin.declared[i].run_idx
            IN (\A k \in 1..Len(fin.declared) :
                    (fin.declared[k].file = file /\ fin.declared[k].run_idx = run_idx) =>
                        /\ jsonl[fin.declared[k].path].exists
                        /\ RecordsOfFile(file, fin.declared[k].path) # <<>>) =>
                  \A docs \in AlteredSummaries :
                      RunAccuracyOver(docs, fin.json_shards, file, run_idx)
                          = RunAccuracy(fin.json_shards, file, run_idx)

\* the shard summaries or shard logs the invocation in progress reads cannot be
\* assembled: the first summary has no config entry, or a declared log holds a
\* line that is no JSON document
Unassemblable ==
    \/ ~shardJson[fin.json_shards[1]].config
    \/ \E i \in 1..Len(fin.declared) :
          jsonl[fin.declared[i].path].exists /\ jsonl[fin.declared[i].path].torn

\* C22: an invocation that finds a shard summary that is no valid JSON, a first
\* summary without config entry, or a shard log line that is no valid JSON
\* ends by its exception, never by returning 0, and writes no final report
C22_StructuralFailureFatal ==
    [][/\ (fin.pc \in {"idle", "done", "raised"} /\ fin' # fin
            /\ \E q \in Procs : shardJson[q].exists /\ shardJson[q].corrupt) =>
            (fin'.pc = "raised" /\ fin'.ret # 0 /\ report' = report)
       /\ (fin.pc = "merge" /\ Unassemblable /\ fin' # fin) =>
            /\ report' = report
            /\ fin'.pc \in {"merge", "cleanup"}
            /\ fin'.pc = "cleanup" => fin'.raised
       /\ (fin.pc = "cleanup" /\ fin.raised /\ fin' # fin) =>
            (fin'.pc = "raised" /\ fin'.ret # 0 /\ report' = report)]_vars

\* the assembly has stopped on a first summary without config entry, every run
\* log being merged
C22_Witness ==
    /\ fin.pc = "cleanup" /\ fin.raised
    /\ fin.merged_runs # {}
    /\ shardJson[fin.json_shards[1]].exists
    /\ ~shardJson[fin.json_shards[1]].config

\* the FileResults computed: those _evaluate_dataset has appended to results and
\* those of the final report
ComputedFileResults ==
    UNION {Range(runner[p].results) : p \in Procs}
    \cup (IF report.exists /\ ~report.corrupt THEN Range(report.results) ELSE {})

RECURSIVE DenominatorProduct(_)
DenominatorProduct(s) == IF s = <<>> THEN 1 ELSE Head(s)[2] * DenominatorProduct(Tail(s))

RECURSIVE ScaledSum(_, _)
\* the sum of the fractions of s, in units of 1/P
ScaledSum(s, P) ==
    IF s = <<>> THEN 0 ELSE Head(s)[1] * (P \div Head(s)[2]) + ScaledSum(Tail(s), P)

RECURSIVE ScaledSquares(_, _)
\* the sum of the squares of the fractions of s, in units of 1/P^2
ScaledSquares(s, P) ==
    IF s = <<>> THEN 0
    ELSE LET x == Head(s)[1] * (P \div Head(s)[2]) IN x * x + ScaledSquares(Tail(s), P)

\* C23: every FileResult computed lists one accuracy per run log, the run logs in
\* ascending order of run index; its accuracy_mean is the sum of the accuracies
\* divided by their number n, and its accuracy_std is the square root of
\* (sum of squares)/n - mean^2, which is 0 when n = 1
C23_FileResultStatistics ==
    \A fr \in ComputedFileResults :
        LET accs == fr.accuracies
            n == Len(accs)
            P == DenominatorProduct(accs)
            S == ScaledSum(accs, P)
            Q == ScaledSquares(accs, P)
            v == fr.accuracy_std.sqrt_of
        IN /\ n >= 1
           /\ Len(fr.results) = n
           /\ \A i, j \in 1..n : i < j => fr.results[i].run < fr.results[j].run
           /\ fr.accuracy_mean[1] * n * P = fr.accuracy_mean[2] * S
           /\ v[1] * n * n * P * P = v[2] * (n * Q - S * S)
           /\ n = 1 => v = Zero

\* a merged report gives a file two runs of different accuracy
C23_Witness ==
    /\ report.exists
    /\ fin.pc = "done"
    /\ hist # <<>> /\ hist[Len(hist)].branch = "merge"
    /\ \E fr \in Range(report.results) :
          /\ Len(fr.accuracies) = 2
          /\ fr.accuracies[1] # fr.accuracies[2]
          /\ fr.accuracy_std # Sqrt(Zero)

\* the records of detailed_results that carry the question_id i
RecordsOf(i) == {k \in 1..Len(ev.detailed_results) : ev.detailed_results[k].question_id = i}

\* the question evaluate_file asked at position i is the question of the file
\* at that position, as given or as one shuffle returns it
AskedIsQuestionAt(i) ==
    IF ev.shuffle_enabled
    THEN \E perm \in Shuffles(Len(OptionKeys(dataset[i + 1]))) :
            shuffle_question_options(dataset[i + 1], perm) = Returned(ev.asked[i])
    ELSE ev.asked[i] = dataset[i + 1]

\* whatever the order of completion, a record carries the position, the text,
\* the answer label and the prediction of one and the same submitted question,
\* and no two records carry the same position
RecordsOfTheirQuestion ==
    /\ \A k \in 1..Len(ev.detailed_results) :
          LET d == ev.detailed_results[k]
              i == d.question_id
          IN /\ i \in Submitted
             /\ ev.future[i] = "done"
             /\ AskedIsQuestionAt(i)
             /\ d.question = QuestionTextOf(ev.asked[i])
             /\ d.correct_answer = Upper(Strip(ev.asked[i][ANSWER].str))
             /\ d.predicted_answer = ev.predicted[i]
    /\ \A i \in QuestionIds : Cardinality(RecordsOf(i)) <= 1

\* C24: the records are those of their questions in every order of completion
\* and, once evaluate_file has ended without any LLM call having failed, every
\* question whose answer label names one of its options has had exactly one
\* LLM call and has exactly one record
C24_OneRecordPerQuestion ==
    /\ RecordsOfTheirQuestion
    /\ (ev.pc \in {"returned", "raised"} /\ \A i \in QuestionIds : ev.future[i] # "failed") =>
          \A i \in 0..(Len(dataset) - 1) :
              LabelIsOption(dataset[i + 1]) =>
                  /\ ev.future[i] = "done"
                  /\ Cardinality(RecordsOf(i)) = 1

\* the same, for the executions of evaluate_file that return
C24_ReturnedOneRecordPerQuestion ==
    /\ RecordsOfTheirQuestion
    /\ ev.pc = "returned" =>
          \A i \in 0..(Len(dataset) - 1) :
              LabelIsOption(dataset[i + 1]) =>
                  /\ ev.future[i] = "done"
                  /\ Cardinality(RecordsOf(i)) = 1

\* the lines of a log in another order of completion: inside one evaluate_file
\* no two records share a question_id, so a change of the order in which its
\* calls completed keeps the order of the records of equal question_id
Reordered(lines) ==
    {[i \in 1..Len(lines) |-> lines[perm[i]]] :
        perm \in {f \in [1..Len(lines) -> 1..Len(lines)] :
                    /\ \A i, j \in 1..Len(lines) : i # j => f[i] # f[j]
                    /\ \A i, j \in 1..Len(lines) :
                          (i < j /\ lines[f[i]].question_id = lines[f[j]].question_id)
                              => f[i] < f[j]}}

\* C25: while finalize_results merges, the summaries it works on and the
\* entries of every merged run log are those it would have for any order in
\* which glob lists the summaries and any order in which the calls of a file
\* evaluation completed; a merged log on disk holds exactly these entries
C25_MergeOrderIndependent ==
    (fin.pc = "merge") =>
        /\ \A order \in GlobOrders :
              /\ Sorted(order) = fin.json_shards
              /\ DeclaredRuns(Sorted(order)) = fin.declared
        /\ \A run_idx \in RunIndices(fin.declared) :
              /\ \A jp \in ShardPaths : \A lines \in Reordered(jsonl[jp].lines) :
                    MergedEntries([jsonl EXCEPT ![jp].lines = lines], fin.declared, run_idx)
                        = MergedEntries(jsonl, fin.declared, run_idx)
              /\ run_idx \in fin.merged_runs =>
                    jsonl[MergedPath(run_idx)].lines = MergedEntries(jsonl, fin.declared, run_idx)

\* two summaries are merged, and a shard log of the merged run holds its
\* records in an order that is not the order of the questions
C25_Witness ==
    /\ fin.pc = "merge"
    /\ Len(fin.json_shards) = 2
    /\ \E run_idx \in fin.merged_runs : \E jp \in Range(RunJsonlShards(fin.declared, run_idx)) :
          /\ Len(jsonl[jp].lines) = 2
          /\ jsonl[jp].lines[1].question_id > jsonl[jp].lines[2].question_id

\* the position of run_idx among the sorted run indices of a file
RunPosition(declared, file, run_idx) ==
    Cardinality({r \in FileRuns(declared, file) : r <= run_idx})

\* C26: when the report is assembled, a declared run of a file of which the
\* merged log has no attributable record and no summary holds a pre-computed
\* accuracy is listed with the accuracy 0, the FileResult lists one accuracy
\* per declared run of the file, and accuracy_mean divides the sum of all of
\* them by their number
C26_UnknownRunCountsAsZero ==
    [][(fin.pc = "merge" /\ PendingRuns = {} /\ report' # report) =>
          \A i \in 1..Len(fin.declared) :
              LET file == fin.declared[i].file
                  run_idx == fin.declared[i].run_idx
              IN (/\ RunFileCorrect(run_idx, file) = <<>>
                  /\ ~HasPrecomputed(fin.json_shards, file, run_idx)) =>
                     \E fr \in Range(report'.results) :
                         LET n == Cardinality(FileRuns(fin.declared, file))
                             P == DenominatorProduct(fr.accuracies)
                         IN /\ fr.file = file
                            /\ Len(fr.accuracies) = n
                            /\ fr.accuracies[RunPosition(fin.declared, file, run_idx)] = Zero
                            /\ fr.accuracy_mean[1] * n * P
                                  = fr.accuracy_mean[2] * ScaledSum(fr.accuracies, P)]_vars

\* the report gives a file a first run of accuracy above 0 and a second run of
\* which the only summary, still on disk, holds no accuracy
C26_Witness ==
    /\ fin.pc = "cleanup" /\ fin.exported
    /\ Len(fin.json_shards) = 1
    /\ \E fr \in Range(report.results) :
          /\ Len(fr.accuracies) = 2
          /\ fr.accuracies[1] # Zero
          /\ fr.accuracies[2] = Zero
          /\ fr.accuracy_mean # Zero
          /\ \E sr \in Range(shardJson[fin.json_shards[1]].results) :
                sr.file = fr.file /\ Len(sr.accuracies) = 1 /\ Len(sr.results) = 2

\* the shard logs whose entries are in a merged run log written by the invocation
ReadIntoMergedLog ==
    UNION {Range(ExistingShards(RunJsonlShards(fin.declared, run_idx))) :
             run_idx \in fin.merged_runs}

\* C27: a step of finalize_results leaves every shard log as it is or deletes
\* it, deletes no shard log but one read into a merged run log and no summary
\* but a discovered one, and neither deletes nor empties a merged run log that
\* holds records or the final report
C27_OnlyMergedInputsDeleted ==
    [][calls > 0 =>
          /\ \A jp \in ShardPaths :
                jsonl'[jp] # jsonl[jp] =>
                    /\ jsonl'[jp] = AbsentFile
                    /\ jp \in ReadIntoMergedLog
          /\ \A p \in Procs :
                shardJson'[p] # shardJson[p] =>
                    /\ shardJson'[p] = AbsentJson
                    /\ p \in Range(fin.json_shards)
          /\ \A jp \in MergedPaths :
                (jsonl[jp].exists /\ jsonl[jp].lines # <<>>) =>
                    (jsonl'[jp].exists /\ jsonl'[jp].lines # <<>>)
          /\ report.exists => report'.exists]_vars

\* C28: in every FileResult of a shard summary, the log at position i of
\* individual_runs.results is the log of run index i (positions counted from 0)
C28_PositionIsRunIndex ==
    \A p \in Procs :
        (shardJson[p].exists /\ ~shardJson[p].corrupt) =>
            \A fr \in Range(shardJson[p].results) :
                \A i \in 1..Len(fr.results) : fr.results[i].run = i - 1

\* the configuration with another API key
WithApiKey(config, api_key) ==
    Put(config, "llm_api", Put(config.items["llm_api"], "api_key", api_key))

\* C29: the config entry of the exported results holds neither llm_api.api_key
\* nor llm_instance nor evaluation_strategy_instance, and is the same whatever
\* the API key of the loaded configuration
C29_SnapshotWithoutSecrets ==
    conf.pc = "exported" =>
        /\ ~Has(conf.saved, "llm_instance")
        /\ ~Has(conf.saved, "evaluation_strategy_instance")
        /\ Has(conf.saved, "llm_api") /\ ~Has(conf.saved.items["llm_api"], "api_key")
        /\ \A api_key \in ApiKeys :
              _prepare_config_for_saving(WithApiKey(conf.config, api_key)).save_config
                  = conf.saved

\* the results of a configuration with an API key have been exported, and
\* the live configuration still holds the key
C29_Witness ==
    /\ conf.pc = "exported"
    /\ conf.yaml.items["llm_api"].items["api_key"] \in ApiKeys
    /\ Has(conf.config.items["llm_api"], "api_key")
    /\ Has(conf.saved, "evaluation")

\* C30: once ConfigValidator has accepted the configuration, the RateLimiter of
\* the first Evaluator is built without error; it has no limit only for the
\* api_rate_limit -1, and for any other value its interval is positive
C30_AcceptedRateIsUsable ==
    (conf.pc \in {"evaluating", "crashed"} /\ conf.runs = 0) =>
        LET api_rate_limit == conf.config.items["llm_api"].items["api_rate_limit"]
        IN /\ conf.pc = "evaluating"
           /\ conf.rate_limiter.no_limit => api_rate_limit.num = -1
           /\ ~conf.rate_limiter.no_limit => conf.rate_limiter.interval > 0

====
